---------------------------- MODULE Spec2Model ----------------------------
(***************************************************************************)
(* Verification model of the histomap timeline renderer.                   *)
(*                                                                         *)
(*   - TimeScale (year <-> pixel mapping, axis ticks)                      *)
(*   - Visualization.drawPeopleBand (collision-aware band layout and the   *)
(*     color assignment that follows it)                                   *)
(*                                                                         *)
(* Arithmetic.  The program computes in IEEE doubles; the model computes   *)
(* in exact integer arithmetic.  Every pixel quantity is held in sub-pixel *)
(* units (Sub units per pixel) so that charWidth = 6.5 px is an integer.   *)
(* Initial states are chosen so that every division the program performs   *)
(* is exact (chartWidth is a multiple of the year range; in logarithmic    *)
(* mode startYear and endYear are years at which the logarithm is an       *)
(* integer).                                                               *)
(***************************************************************************)
EXTENDS Integers, Sequences, FiniteSets, TLC

\* sub-pixel units per pixel
Sub == 2

\* greatest number of events in a band
MaxItems == 3

\* a missing (null / undefined) year, color or field: JavaScript treats
\* null, undefined and 0 alike in  a || b  and in  if (a)
None == 0

Max(a, b) == IF a >= b THEN a ELSE b

Min(a, b) == IF a <= b THEN a ELSE b

Abs(a) == IF a < 0 THEN 0 - a ELSE a

\* a || b  on numbers
OrElse(a, b) == IF a # None THEN a ELSE b

Range(s) == {s[i] : i \in DOMAIN s}

(***************************************************************************)
(* TimeScale                                                               *)
(***************************************************************************)

RECURSIVE Pow(_, _)
\* Math.pow(base, k) for a non-negative integer k
Pow(b, k) == IF k <= 0 THEN 1 ELSE b * Pow(b, k - 1)

RECURSIVE calculateLog(_, _)
\* Math.log(value) / Math.log(base); exact when value is a power of base,
\* rounded down otherwise
calculateLog(b, value) == IF value < b THEN 0 ELSE 1 + calculateLog(b, value \div b)

\* the years at which calculateLog is exact
IsPowerOf(b, value) == value >= 1 /\ Pow(b, calculateLog(b, value)) = value

\* new TimeScale(config, padding, chartWidth)
NewTimeScale(scale, startYear, endYear, referenceYear, base, paddingLeft, chartWidth) ==
    [scale         |-> scale,
     startYear     |-> startYear,
     endYear       |-> endYear,
     paddingLeft   |-> paddingLeft,
     chartWidth    |-> chartWidth,
     referenceYear |-> IF scale = "logarithmic" THEN referenceYear ELSE None,
     base          |-> IF scale = "logarithmic" THEN base ELSE None,
     offset        |-> IF scale = "logarithmic" THEN 1 ELSE None,
     maxLogValue   |-> IF scale = "logarithmic"
                       THEN calculateLog(base, referenceYear - startYear + 1) ELSE None,
     minLogValue   |-> IF scale = "logarithmic"
                       THEN calculateLog(base, referenceYear - endYear + 1) ELSE None]

linearYearToX(t, year) ==
    LET yearRange == t.endYear - t.startYear
    IN  t.paddingLeft + ((year - t.startYear) * t.chartWidth) \div yearRange

\* logarithmicYearToX measuring the logarithm from minLogValue upwards
logarithmicYearToX_FromMin(t, year) ==
    LET yearsBeforeRef == t.referenceYear - year
        logValue       == calculateLog(t.base, yearsBeforeRef + t.offset)
    IN  t.paddingLeft
          + ((logValue - t.minLogValue) * t.chartWidth) \div (t.maxLogValue - t.minLogValue)

logarithmicYearToX(t, year) ==
    LET yearsBeforeRef == t.referenceYear - year
        logValue       == calculateLog(t.base, yearsBeforeRef + t.offset)
    IN  t.paddingLeft
          + ((t.maxLogValue - logValue) * t.chartWidth) \div (t.maxLogValue - t.minLogValue)

yearToX(t, year) ==
    IF t.scale = "linear" THEN linearYearToX(t, year) ELSE logarithmicYearToX(t, year)

\* xToYear that does not take the offset off again
xToYear_KeepOffset(t, x) ==
    IF t.scale = "linear"
    THEN LET yearRange == t.endYear - t.startYear
         IN  t.startYear + ((x - t.paddingLeft) * yearRange) \div t.chartWidth
    ELSE LET logValue == t.maxLogValue
                           - ((x - t.paddingLeft) * (t.maxLogValue - t.minLogValue)) \div t.chartWidth
         IN  t.referenceYear - Pow(t.base, logValue)

xToYear(t, x) ==
    IF t.scale = "linear"
    THEN LET yearRange == t.endYear - t.startYear
         IN  t.startYear + ((x - t.paddingLeft) * yearRange) \div t.chartWidth
    ELSE LET logValue == t.maxLogValue
                           - ((x - t.paddingLeft) * (t.maxLogValue - t.minLogValue)) \div t.chartWidth
             yearsBeforeRef == Pow(t.base, logValue) - t.offset
         IN  t.referenceYear - yearsBeforeRef

\* updateDimensions that keeps the chart width of the constructor
updateDimensions_PaddingOnly(t, paddingLeft, chartWidth) ==
    [t EXCEPT !.paddingLeft = paddingLeft]

updateDimensions(t, paddingLeft, chartWidth) ==
    [t EXCEPT !.paddingLeft = paddingLeft, !.chartWidth = chartWidth]


(***************************************************************************)
(* Stable sorting (Array.prototype.sort with a numeric comparator)         *)
(***************************************************************************)

\* the position of element i in the sorted array: behind every element of
\* a smaller key and behind the earlier elements of the same key
SortedPosition(key, i) ==
    Cardinality({j \in DOMAIN key : key[j] < key[i] \/ (key[j] = key[i] /\ j <= i)})

\* seq.sort((a, b) => key(a) - key(b)); key is given per index of seq
StableSort(seq, key) ==
    [p \in DOMAIN seq |-> seq[CHOOSE i \in DOMAIN seq : SortedPosition(key, i) = p]]

(***************************************************************************)
(* TimeScale: axis ticks                                                   *)
(***************************************************************************)

\* a tick object; of its styling only the height is kept
Tick(year, showLabel, height) == [year |-> year, showLabel |-> showLabel, height |-> height]

\* Math.ceil(a / b) for b > 0
CeilDiv(a, b) == 0 - ((0 - a) \div b)

\* ensureReferenceTick without its range test
ensureReferenceTick_AnyRange(t, tickList, year) ==
    IF \E i \in DOMAIN tickList : tickList[i].year = year THEN tickList
    ELSE Append(tickList, Tick(year, TRUE, 12))

\* ensureReferenceTick(ticks, year): the array after the call
ensureReferenceTick(t, tickList, year) ==
    IF year < t.startYear \/ year > t.endYear THEN tickList
    ELSE IF \E i \in DOMAIN tickList : tickList[i].year = year THEN tickList
    ELSE Append(tickList, Tick(year, TRUE, 12))

\* ticks.sort((a, b) => a.year - b.year)
SortByYear(tickList) == StableSort(tickList, [i \in DOMAIN tickList |-> tickList[i].year])

\* the years first, first + step, ... <= last for which a loop pushes a tick:
\* those of [startYear, endYear]
LoopYears(t, first, step, last) ==
    LET n     == IF last < first THEN 0 ELSE (last - first) \div step + 1
        years == [i \in 1..n |-> first + (i - 1) * step]
        Keep(y) == y >= t.startYear /\ y <= t.endYear
    IN  SelectSeq(years, Keep)

getLargeRangeLinearTicks(t) ==
    LET yearRange   == t.endYear - t.startYear
        targetTicks == 12
        \* Math.floor(Math.log10(yearRange / targetTicks))
        exponent    == calculateLog(10, yearRange \div targetTicks)
        power       == Pow(10, exponent)
        \* roughStep <= option, with roughStep = yearRange / targetTicks
        Fits(m)     == yearRange <= m * power * targetTicks
        step        == IF Fits(1) THEN power
                       ELSE IF Fits(2) THEN 2 * power
                       ELSE IF Fits(5) THEN 5 * power
                       ELSE IF Fits(10) THEN 10 * power
                       ELSE power
        startTick   == (t.startYear \div step) * step
        endTick     == CeilDiv(t.endYear, step) * step
        Major(y)    == Tick(y, TRUE, 12)
        years       == LoopYears(t, startTick, step, endTick)
        tickList    == [i \in DOMAIN years |-> Major(years[i])]
    IN  SortByYear(ensureReferenceTick(t, tickList, 1))

getLinearTicks(t) ==
    LET yearRange == t.endYear - t.startYear
        Yearly(y) == IF y % 50 = 0 THEN Tick(y, TRUE, 13)
                     ELSE IF y % 10 = 0 THEN Tick(y, TRUE, 6)
                     ELSE Tick(y, FALSE, 0)
        \* else if (year % 2 !== 0) continue
        Pushed(tick) == tick.year % 50 = 0 \/ tick.year % 10 = 0 \/ tick.year % 2 = 0
        years     == LoopYears(t, t.startYear, 1, t.endYear)
        tickList  == SelectSeq([i \in DOMAIN years |-> Yearly(years[i])], Pushed)
    IN  IF yearRange > 10000 THEN getLargeRangeLinearTicks(t)
        ELSE ensureReferenceTick(t, tickList, 1)

\* keep the first tick of every year
RECURSIVE UniqueByYear(_)
UniqueByYear(tickList) ==
    IF tickList = <<>> THEN <<>>
    ELSE LET front == UniqueByYear(SubSeq(tickList, 1, Len(tickList) - 1))
             last  == tickList[Len(tickList)]
         IN  IF \E i \in DOMAIN front : front[i].year = last.year THEN front
             ELSE Append(front, last)

getLargeRangeLogTicks(t) ==
    LET maxYearsBeforeRef == t.referenceYear - t.startYear
        minYearsBeforeRef == t.referenceYear - t.endYear
        maxPower == calculateLog(10, maxYearsBeforeRef)
        minPower == Max(0, calculateLog(10, minYearsBeforeRef))
        Major(y) == Tick(y, TRUE, 12)
        Minor(y) == Tick(y, TRUE, 10)
        powers   == [i \in 1..(maxPower - minPower + 1) |-> minPower + i - 1]
        NotBillion(pw) == Pow(10, pw) # 1000000000
        InRange(y) == y >= t.startYear /\ y <= t.endYear
        powerYears == LET all == [i \in DOMAIN SelectSeq(powers, NotBillion) |->
                                     t.referenceYear - Pow(10, SelectSeq(powers, NotBillion)[i])]
                      IN  SelectSeq(all, InRange)
        \* -billions * 1_000_000_000 for billions = 1..5; a year below startYear is
        \* skipped before it is computed, as it may not fit the model's integers
        billions == LET all == <<1, 2, 3, 4, 5>>
                        Reaches(b) == b <= (0 - t.startYear) \div 1000000000
                        NotAfter(b) == (0 - b) * 1000000000 <= t.endYear
                        Keep(b) == Reaches(b) /\ NotAfter(b)
                    IN  SelectSeq(all, Keep)
        hundredMillions == LoopYears(t, 0 - 800000000, 100000000, 0 - 100000000)
        tickList ==
            [i \in DOMAIN powerYears |-> Major(powerYears[i])]
              \o [i \in DOMAIN billions |-> Major((0 - billions[i]) * 1000000000)]
              \o [i \in DOMAIN hundredMillions |-> Minor(hundredMillions[i])]
              \o <<Major(t.endYear), Major(t.startYear)>>
    IN  SortByYear(UniqueByYear(tickList))

getLogTicks(t) ==
    LET yearRange   == t.endYear - t.startYear
        startDecade == (t.startYear \div 10) * 10
        endDecade   == CeilDiv(t.endYear, 10) * 10
        Decade(y)   == LET isMillennium == y % 1000 = 0
                           isCentury    == y % 100 = 0
                           showLabel    == isMillennium \/ (isCentury /\ y >= 1000 /\ y <= 2000)
                       IN  IF isMillennium THEN Tick(y, showLabel, IF showLabel THEN 13 ELSE 0)
                           ELSE IF isCentury THEN Tick(y, showLabel, IF showLabel THEN 6 ELSE 0)
                           ELSE Tick(y, showLabel, 0)
        years       == LoopYears(t, startDecade, 10, endDecade)
        sorted      == SortByYear([i \in DOMAIN years |-> Decade(years[i])])
    IN  IF yearRange > 50000
        THEN ensureReferenceTick(t, getLargeRangeLogTicks(t), 1)
        ELSE ensureReferenceTick(t, sorted, 1)

\* the ticks before getAxisTicks filters them
UnfilteredTicks(t) == IF t.scale = "linear" THEN getLinearTicks(t) ELSE getLogTicks(t)

\* getAxisTicks returning the generated ticks as they are
getAxisTicks_NoFilter(t) == UnfilteredTicks(t)

getAxisTicks(t) ==
    LET tickList == UnfilteredTicks(t)
        NotZero(tick) == tick.year # 0
    IN  SelectSeq(tickList, NotZero)

(***************************************************************************)
(* Visualization.drawPeopleBand: constants                                 *)
(***************************************************************************)

fontSize == 12 * Sub

textHeight == fontSize + 4 * Sub

lineGap == 6 * Sub

textGap == 20 * Sub

\* 6.5 px
charWidth == (13 * Sub) \div 2

verticalTextOverlapThreshold == 18 * Sub

\* the bound of the placement search loop
SafetyLimit == 50

\* the vertical window of the color lookback
ColorWindow == 50 * Sub

\* the number of preceding items the color assignment looks at
LookbackCount == 3

topPadding == 8 * Sub

\* eventSet.maxHeight || 999
DefaultMaxHeight == 999 * Sub

NoColor == <<>>

colors == <<
    <<231, 76, 60>>,
    <<26, 188, 156>>,
    <<243, 156, 18>>,
    <<52, 152, 219>>,
    <<46, 204, 113>>,
    <<232, 67, 147>>,
    <<212, 175, 55>>,
    <<155, 89, 182>>,
    <<22, 160, 133>>,
    <<230, 126, 34>>,
    <<41, 128, 185>>,
    <<39, 174, 96>>,
    <<192, 57, 43>>,
    <<0, 184, 148>>,
    <<211, 84, 0>>,
    <<108, 92, 231>>,
    <<142, 68, 173>>,
    <<149, 165, 166>>,
    <<52, 73, 94>>,
    <<127, 140, 141>> >>

\* colorDistance(color1, color2) squared: the program compares distances
\* only, and the square root preserves their order
colorDistance(c1, c2) ==
    (c1[1] - c2[1]) * (c1[1] - c2[1])
  + (c1[2] - c2[2]) * (c1[2] - c2[2])
  + (c1[3] - c2[3]) * (c1[3] - c2[3])

(***************************************************************************)
(* The inputs of a layout                                                  *)
(***************************************************************************)

\* the events a band is drawn from, as DataLoader.processEventSet leaves them
Event(id, nameLength, startYear, endYear, priority, color, displayYear) ==
    [id |-> id, nameLength |-> nameLength,
     startYear |-> startYear, endYear |-> endYear,
     startTimestamp |-> startYear, endTimestamp |-> endYear,
     priority |-> priority, color |-> color, displayYear |-> displayYear]

Catalog == <<
    Event(1, 2, 11, 12,   1, NoColor, None),
    Event(2, 2, 11, 17,   1, NoColor, None),
    Event(3, 5, 13, None, 1, NoColor, None),
    Event(4, 5, 13, None, 1, NoColor, None),
    Event(5, 8, 12, 13,   2, NoColor, None),
    Event(6, 2, 8,  11,   2, NoColor, None),
    Event(7, 2, 16, 20,   1, NoColor, None),
    Event(8, 3, 14, 16,   2, <<46, 204, 113>>, None),
    Event(9, 2, 12, 16,   2, NoColor, 11),
    Event(10, 2, 3, 5,    1, NoColor, None),
    Event(11, 2, 12, None, 1, NoColor, 9) >>

Ids == DOMAIN Catalog

\* the visible range and the chart of the layouts
VisibleStart == 10

VisibleEnd == 18

PixelsPerYear == 20 * Sub

LayoutPaddingLeft == 100 * Sub

LayoutScale ==
    NewTimeScale("linear", VisibleStart, VisibleEnd, None, None,
                 LayoutPaddingLeft, (VisibleEnd - VisibleStart) * PixelsPerYear)

\* config.padding.right
PaddingRight == 40 * Sub

\* config.width of a chart of k * PixelsPerYear per visible year
WidthOf(k) ==
    LayoutPaddingLeft + (VisibleEnd - VisibleStart) * k * PixelsPerYear + PaddingRight

\* the module-level config before the first render call
DefaultConfig ==
    [width |-> WidthOf(1), startYear |-> VisibleStart, endYear |-> VisibleEnd,
     paddingLeft |-> LayoutPaddingLeft]

\* the band's top edge: config.padding.top
BandTop == 100 * Sub

\* sequences of distinct events, at most MaxItems long: the order in the data file
RECURSIVE DistinctSeqs(_)
DistinctSeqs(n) ==
    IF n = 0 THEN {<<>>}
    ELSE LET shorter == DistinctSeqs(n - 1)
             longest == {t \in shorter : Len(t) = n - 1}
         IN  shorter \cup UNION {{Append(t, j) : j \in Ids \ Range(t)} : t \in longest}

\* DataLoader.processEventSet: eventSet.events.sort((a, b) => a.startYear - b.startYear)
processEventSet(fileOrder) ==
    StableSort(fileOrder, [i \in DOMAIN fileOrder |-> Catalog[fileOrder[i]].startYear])

BandNames == {"People", "Presidents", "Events"}

\* the values of eventSet.maxHeight: unset, or the least value the control accepts
MaxHeights == {None, 50 * Sub}

VARIABLES
    ts,            \* currentTimeScale: the TimeScale object
    config,        \* Visualization's module-level config (startYear, padding.left)
    eventSet,      \* the band being drawn: name, events (ids), maxHeight
    personColor,   \* person.personColor of every event object (NoColor: never set)
    pc,            \* the position inside drawPeopleBand
    sortedPeople,  \* drawPeopleBand's sortedPeople (ids)
    personIndex,   \* the forEach index into sortedPeople (1-based)
    cur,           \* the locals of the placement search of the current item
    placedItems,   \* drawPeopleBand's placedItems
    run,           \* the number of completed layouts of this band
    prevScene,     \* the scene the previous layout of this band produced
    probe,         \* the arguments and results of the latest TimeScale queries
    ticks,         \* the result of the latest getAxisTicks call
    supplied,      \* the padding.left and chartWidth most recently supplied to ts
    settings,      \* the settings argument of the latest Visualization.render call
    firstScene,    \* per settings argument: the scene its first render call drew
    controls,      \* Controls: the inputs and the outcome of the latest updateVisualization
    gdpData,       \* drawGDPBlocsBand: the gdpData argument and bandHeight
    gpc,           \* the position inside drawGDPBlocsBand / placeAllGDPBlocLabels
    gloop,         \* the loop variables of the running loop of these functions
    allBlocPoints, \* drawGDPBlocsBand's allBlocPoints
    blocData,      \* placeAllGDPBlocLabels' blocData
    placedLabels,  \* placeAllGDPBlocLabels' placedLabels
    stack,         \* drawEventBands: the event sets, currentY, the bands drawn so far
    AppState,      \* main.js: AppState without timeScale, which is the object ts
    calls          \* the initializeTimeline calls made, and whether each awaits its data

layoutVars == <<config, eventSet, personColor, pc, sortedPeople, personIndex, cur,
                placedItems, run, prevScene>>

scaleVars == <<probe, ticks, supplied>>

renderVars == <<settings, firstScene, controls, stack, AppState, calls>>

gdpVars == <<gdpData, gpc, gloop, allBlocPoints, blocData, placedLabels>>

vars == <<ts, config, eventSet, personColor, pc, sortedPeople, personIndex, cur,
          placedItems, run, prevScene, probe, ticks, supplied,
          settings, firstScene, controls,
          gdpData, gpc, gloop, allBlocPoints, blocData, placedLabels, stack,
          AppState, calls>>

NoCur ==
    [startX |-> 0, endX |-> 0, textWidth |-> 0, maxTextX |-> 0, lineY |-> 0,
     textX |-> 0, foundPosition |-> FALSE, safetyCounter |-> 0,
     foundTextPosition |-> FALSE, textMaxStartX |-> 0]

NoProbe == [valid |-> FALSE, y1 |-> 0, y2 |-> 0, x1 |-> 0, x2 |-> 0, back |-> 0]

\* no render call made yet
NoSettings == [width |-> None, startYear |-> None, endYear |-> None]

NoControls == [startYear |-> 0, endYear |-> 1, width |-> None, alert |-> FALSE]

\* drawEventBands before its loop: let currentY = config.padding.top
NoStack ==
    [sets |-> <<>>, index |-> 1, currentY |-> BandTop, bands |-> <<>>, finalHeight |-> None]

\* const AppState = { currentTimelineId: 'us', timelineConfig: null, eventSets: [] }
NoAppState == [currentTimelineId |-> "us", timelineConfig |-> None, eventSets |-> <<>>]

RenderIdle ==
    /\ settings = NoSettings
    /\ firstScene = <<>>
    /\ controls = NoControls
    /\ stack = NoStack
    /\ AppState = NoAppState
    /\ calls = <<>>

NoLoop == [i |-> 0, round |-> 0, labelPlaced |-> FALSE]

GDPIdle ==
    /\ gdpData = [blocList |-> <<>>, rows |-> <<>>, height |-> None]
    /\ gpc = "idle"
    /\ gloop = NoLoop
    /\ allBlocPoints = <<>>
    /\ blocData = <<>>
    /\ placedLabels = <<>>

isPeopleBand == eventSet.name = "People"

isPresidentsBand == eventSet.name = "Presidents"

\* drawEventBand: the arguments it passes to drawPeopleBand
allEvents ==
    StableSort(eventSet.events,
               [i \in DOMAIN eventSet.events |-> Catalog[eventSet.events[i]].priority])

\* drawEventBand(eventSet, y): y is drawEventBands' currentY
bandY == stack.currentY

baseY == bandY + topPadding + fontSize

maxHeight == IF eventSet.maxHeight # None THEN eventSet.maxHeight ELSE DefaultMaxHeight

\* const oneYearWidth = Math.abs(yearToX(config.startYear + 1) - yearToX(config.startYear))
minTimelineGap == Abs(yearToX(ts, config.startYear + 1) - yearToX(ts, config.startYear))

rightEdge == yearToX(ts, ts.endYear)

(***************************************************************************)
(* drawPeopleBand: visibility filter and processing order                  *)
(***************************************************************************)

\* the events.forEach filter into visiblePeople
IsVisible(e) ==
    LET endYear == OrElse(e.endYear, IF isPeopleBand THEN ts.endYear ELSE e.startYear)
    IN  endYear >= ts.startYear /\ e.startYear <= ts.endYear

visiblePeople ==
    LET Test(id) == IsVisible(Catalog[id])
    IN  SelectSeq(allEvents, Test)

\* const aEnd = a.endTimestamp || a.startTimestamp
SortEnd(e) == OrElse(e.endTimestamp, e.startTimestamp)

\* priorityGroup.sort((a, b) => bEnd - aEnd)
SortPriorityGroup(g) == StableSort(g, [i \in DOMAIN g |-> 0 - SortEnd(Catalog[g[i]])])

RECURSIVE ConcatGroups(_, _)
\* priorities.forEach(priority => sortedPeople.push(...peopleByPriority[priority]))
ConcatGroups(priorities, people) ==
    IF priorities = {} THEN <<>>
    ELSE LET p == CHOOSE q \in priorities : \A r \in priorities : q <= r
             InGroup(id) == Catalog[id].priority = p
         IN  SortPriorityGroup(SelectSeq(people, InGroup))
               \o ConcatGroups(priorities \ {p}, people)

SortByPriorityGroups(people) ==
    ConcatGroups({Catalog[id].priority : id \in Range(people)}, people)

\* sortedPeople.sort((a, b) => a.startTimestamp - b.startTimestamp)
SortChronologically(people) ==
    StableSort(people, [i \in DOMAIN people |-> Catalog[people[i]].startTimestamp])

\* sortedPeople without the chronological sort of the alternating layout
SortedPeopleOf_PriorityOnly(people) == SortByPriorityGroups(people)

\* sortedPeople as the layout loops see it
SortedPeopleOf(people) ==
    IF isPresidentsBand THEN SortChronologically(SortByPriorityGroups(people))
    ELSE SortByPriorityGroups(people)

(***************************************************************************)
(* drawPeopleBand: geometry of one item                                    *)
(***************************************************************************)

\* actualEndX that extends every item without end year to the end of the scale
ActualEndX_AlwaysExtend(person, actualStartX) ==
    IF person.endYear # None /\ person.endYear <= ts.endYear
    THEN yearToX(ts, person.endYear)
    ELSE IF person.endYear = None
         THEN yearToX(ts, ts.endYear)
         ELSE actualStartX

\* actualEndX of the general layout
ActualEndX(person, actualStartX) ==
    IF person.endYear # None /\ person.endYear <= ts.endYear
    THEN yearToX(ts, person.endYear)
    ELSE IF person.endYear = None
         THEN IF isPeopleBand THEN yearToX(ts, ts.endYear) ELSE actualStartX
         ELSE actualStartX

\* actualEndX of the alternating layout
PresidentsActualEndX(person, actualStartX) ==
    IF person.endYear # None /\ person.endYear <= ts.endYear
    THEN yearToX(ts, person.endYear)
    ELSE IF person.endYear = None
         THEN yearToX(ts, ts.endYear)
         ELSE actualStartX

\* the locals of the general layout before the search loop
ItemGeometry(person) ==
    LET displayYear  == OrElse(person.displayYear, person.startYear)
        actualStartX == yearToX(ts, displayYear)
        actualEndX   == ActualEndX(person, actualStartX)
        startX       == Max(actualStartX, config.paddingLeft)
        endX         == Min(actualEndX, rightEdge)
        lineLength   == endX - startX
        textWidth    == person.nameLength * charWidth
        maxTextX     == IF isPeopleBand THEN startX + lineLength - textWidth
                        ELSE rightEdge - textWidth
    IN  [startX |-> startX, endX |-> endX, textWidth |-> textWidth,
         maxTextX |-> maxTextX, lineY |-> baseY, textX |-> startX,
         foundPosition |-> FALSE, safetyCounter |-> 0,
         foundTextPosition |-> FALSE, textMaxStartX |-> 0]

\* the item the alternating layout records for the index-th (0-based) person
PresidentsItem(person, index) ==
    LET actualStartX == yearToX(ts, person.startYear)
        actualEndX   == PresidentsActualEndX(person, actualStartX)
        startX       == Max(actualStartX, config.paddingLeft)
        endX         == Min(actualEndX, rightEdge)
        line1Y       == baseY
        line2Y       == baseY + lineGap * 3
    IN  [person |-> person.id,
         lineY |-> IF index % 2 = 0 THEN line1Y ELSE line2Y,
         startX |-> startX, endX |-> endX, textX |-> startX,
         textWidth |-> person.nameLength * charWidth]

\* FirstLineOverlap without the one-year separation of the lines
FirstLineOverlap_NoGap(placed, c) ==
    LET Hit(i) == /\ c.startX < placed[i].endX
                  /\ c.endX > placed[i].startX
                  /\ Abs(c.lineY - placed[i].lineY) < lineGap
        hits == {i \in DOMAIN placed : Hit(i)}
    IN  IF hits = {} THEN 0 ELSE CHOOSE i \in hits : \A j \in hits : i <= j

\* the first placed item whose line collides with [startX, endX] at lineY; 0 if none
FirstLineOverlap(placed, c) ==
    LET Hit(i) == /\ c.startX < placed[i].endX + minTimelineGap
                  /\ c.endX + minTimelineGap > placed[i].startX
                  /\ Abs(c.lineY - placed[i].lineY) < lineGap
        hits == {i \in DOMAIN placed : Hit(i)}
    IN  IF hits = {} THEN 0 ELSE CHOOSE i \in hits : \A j \in hits : i <= j

\* placedItems.filter(p => Math.abs(lineY - p.lineY) < verticalTextOverlapThreshold)
\* nearbyItems when no placed item counts as vertically close
NearbyItems_None(placed, lineY) == <<>>

NearbyItems(placed, lineY) ==
    LET Near(p) == Abs(lineY - p.lineY) < verticalTextOverlapThreshold
    IN  SelectSeq(placed, Near)

\* FirstTextOverlap without the text gap
FirstTextOverlap_NoGap(nearbyItems, textX, textWidth) ==
    LET Hit(i) == /\ textX < nearbyItems[i].textX + nearbyItems[i].textWidth
                  /\ textX + textWidth > nearbyItems[i].textX
        hits == {i \in DOMAIN nearbyItems : Hit(i)}
    IN  IF hits = {} THEN 0 ELSE CHOOSE i \in hits : \A j \in hits : i <= j

\* the first nearby item whose label collides with a label at textX; 0 if none
FirstTextOverlap(nearbyItems, textX, textWidth) ==
    LET Hit(i) == /\ textX < nearbyItems[i].textX + nearbyItems[i].textWidth + textGap
                  /\ textX + textWidth + textGap > nearbyItems[i].textX
        hits == {i \in DOMAIN nearbyItems : Hit(i)}
    IN  IF hits = {} THEN 0 ELSE CHOOSE i \in hits : \A j \in hits : i <= j

(***************************************************************************)
(* drawPeopleBand: color assignment                                        *)
(***************************************************************************)

\* a sort by lineY that also moves the items onto consecutive rows
SortByLineY_Compact(placed) ==
    LET sorted == StableSort(placed, [i \in DOMAIN placed |-> placed[i].lineY])
    IN  [i \in DOMAIN sorted |-> [sorted[i] EXCEPT !.lineY = baseY + (i - 1) * lineGap]]

\* placedItems.sort((a, b) => a.lineY - b.lineY)
SortByLineY(placed) == StableSort(placed, [i \in DOMAIN placed |-> placed[i].lineY])

\* recentColors looking at the one preceding item only
RecentColors_Previous(items, idx, pcol) ==
    IF Abs(items[idx].lineY - items[idx - 1].lineY) < ColorWindow
    THEN <<pcol[items[idx - 1].person]>> ELSE <<>>

\* recentColors of the item at idx (1-based) of items
RecentColors(items, idx, pcol) ==
    LET lookbackCount == Min(LookbackCount, idx - 1)
        Close(i) == Abs(items[idx].lineY - items[idx - i].lineY) < ColorWindow
        RECURSIVE Collect(_)
        Collect(i) == IF i > lookbackCount THEN <<>>
                      ELSE (IF Close(i) THEN <<pcol[items[idx - i].person]>> ELSE <<>>)
                             \o Collect(i + 1)
    IN  Collect(1)

\* Math.min over the distances of candidateColor to the recent colors
MinDistance(candidateColor, recentColors) ==
    LET ds == {colorDistance(candidateColor, recentColors[i]) : i \in DOMAIN recentColors}
    IN  CHOOSE d \in ds : \A e \in ds : d <= e

RECURSIVE BestColor(_, _, _, _)
\* the for (const candidateColor of colors) loop from the k-th palette color on
BestColor(k, bestColor, maxMinDistance, recentColors) ==
    IF k > Len(colors) THEN bestColor
    ELSE IF recentColors = <<>> THEN colors[k]
    ELSE LET minDistance == MinDistance(colors[k], recentColors)
         IN  IF minDistance > maxMinDistance
             THEN BestColor(k + 1, colors[k], minDistance, recentColors)
             ELSE BestColor(k + 1, bestColor, maxMinDistance, recentColors)

\* ColorFor without the test for a color of the item's own
ColorFor_IgnoreOwn(items, idx, pcol) ==
    IF idx = 1 THEN colors[1]
    ELSE BestColor(1, colors[1], 0 - 1, RecentColors(items, idx, pcol))

\* the color the placedItems.forEach callback gives the item at idx (1-based)
ColorFor(items, idx, pcol) ==
    LET person == Catalog[items[idx].person]
    IN  IF person.color # NoColor THEN person.color
        ELSE IF idx = 1 THEN colors[1]
        ELSE BestColor(1, colors[1], 0 - 1, RecentColors(items, idx, pcol))

RECURSIVE AssignColors(_, _, _)
\* placedItems.forEach((item, idx) => ...) from idx on
AssignColors(items, idx, pcol) ==
    IF idx > Len(items) THEN pcol
    ELSE AssignColors(items, idx + 1,
                      [pcol EXCEPT ![items[idx].person] = ColorFor(items, idx, pcol)])

\* what drawPeopleBand draws: a line and a label per placed item
SceneOf(placed, pcol) ==
    [i \in DOMAIN placed |->
        [person |-> placed[i].person, lineY |-> placed[i].lineY,
         startX |-> placed[i].startX, endX |-> placed[i].endX,
         textX |-> placed[i].textX, textWidth |-> placed[i].textWidth,
         color |-> pcol[placed[i].person]]]

Scene == SceneOf(placedItems, personColor)

(***************************************************************************)
(* drawPeopleBand as a state machine                                       *)
(***************************************************************************)

\* the number of times the band is laid out
MaxRuns == 2

LayoutInit ==
    /\ ts = LayoutScale
    /\ config = DefaultConfig
    /\ \E name \in BandNames, h \in MaxHeights, fileOrder \in DistinctSeqs(MaxItems) :
          eventSet = [name |-> name, events |-> processEventSet(fileOrder), maxHeight |-> h]
    /\ personColor = [id \in Ids |-> NoColor]
    /\ pc = "start"
    /\ sortedPeople = <<>>
    /\ personIndex = 1
    /\ cur = NoCur
    /\ placedItems = <<>>
    /\ run = 0
    /\ prevScene = <<>>
    /\ probe = NoProbe
    /\ ticks = <<>>
    /\ supplied = [paddingLeft |-> LayoutPaddingLeft, chartWidth |-> LayoutScale.chartWidth,
                   via |-> "constructor"]
    /\ RenderIdle
    /\ GDPIdle

\* Prepare with placedItems living on between calls
Prepare_KeepPlaced ==
    /\ pc = "start"
    /\ sortedPeople' = SortedPeopleOf(visiblePeople)
    /\ placedItems' = placedItems
    /\ personIndex' = 1
    /\ pc' = IF isPresidentsBand THEN "presidents" ELSE "item"
    /\ UNCHANGED <<ts, config, eventSet, personColor, cur, run, prevScene, scaleVars, renderVars, gdpVars>>

\* the filter, the grouping and the sorts at the head of drawPeopleBand
Prepare ==
    /\ pc = "start"
    /\ sortedPeople' = SortedPeopleOf(visiblePeople)
    /\ placedItems' = <<>>
    /\ personIndex' = 1
    /\ pc' = IF isPresidentsBand THEN "presidents" ELSE "item"
    /\ UNCHANGED <<ts, config, eventSet, personColor, cur, run, prevScene, scaleVars, renderVars, gdpVars>>

\* one callback of the sortedPeople.forEach of the alternating layout
PlacePresident ==
    /\ pc = "presidents"
    /\ IF personIndex > Len(sortedPeople)
       THEN /\ pc' = "finish"
            /\ UNCHANGED <<personIndex, placedItems, personColor>>
       ELSE LET person == Catalog[sortedPeople[personIndex]]
                index  == personIndex - 1
            IN  /\ personColor' = [personColor EXCEPT ![person.id] =
                                     IF person.color # NoColor THEN person.color
                                     ELSE colors[(index % Len(colors)) + 1]]
                /\ placedItems' = Append(placedItems, PresidentsItem(person, index))
                /\ personIndex' = personIndex + 1
                /\ pc' = "presidents"
    /\ UNCHANGED <<ts, config, eventSet, sortedPeople, cur, run, prevScene, scaleVars, renderVars, gdpVars>>

\* the head of one callback of the sortedPeople.forEach of the general layout
BeginItem ==
    /\ pc = "item"
    /\ IF personIndex > Len(sortedPeople)
       THEN /\ pc' = "finish"
            /\ cur' = NoCur
       ELSE /\ cur' = ItemGeometry(Catalog[sortedPeople[personIndex]])
            /\ pc' = "loop"
    /\ UNCHANGED <<ts, config, eventSet, personColor, sortedPeople, personIndex,
                   placedItems, run, prevScene, scaleVars, renderVars, gdpVars>>

\* LoopContinues without the safety counter
LoopContinues_NoLimit(c) == ~c.foundPosition

\* while (!foundPosition && safetyCounter < 50)
LoopContinues(c) == ~c.foundPosition /\ c.safetyCounter < SafetyLimit

\* ExceedsHeight measuring the line only, without the text above it
ExceedsHeight_LineOnly(lineY) == lineY - bandY > maxHeight

\* const heightUsed = (lineY + textHeight) - bandY;  if (heightUsed > maxHeight)
ExceedsHeight(lineY) == (lineY + textHeight) - bandY > maxHeight

\* textMaxStartX that lets the label start anywhere up to maxTextX
TextMaxStartX_Loose(c) == c.maxTextX

\* const textMaxStartX = isPeopleBand ? maxTextX : Math.min(endX, maxTextX)
TextMaxStartX(c) == IF isPeopleBand THEN c.maxTextX ELSE Min(c.endX, c.maxTextX)

\* one iteration of the search loop up to the label scan
SearchLoop ==
    /\ pc = "loop"
    /\ IF ~LoopContinues(cur)
       THEN /\ pc' = "after"
            /\ cur' = cur
       ELSE LET c == [cur EXCEPT !.safetyCounter = cur.safetyCounter + 1]
                hit == FirstLineOverlap(placedItems, c)
            IN  IF ExceedsHeight(c.lineY)
                THEN /\ pc' = "after"
                     /\ cur' = c
                ELSE IF hit # 0
                THEN /\ pc' = "loop"
                     /\ cur' = [c EXCEPT !.lineY = placedItems[hit].lineY + lineGap]
                ELSE /\ pc' = "scan"
                     /\ cur' = [c EXCEPT !.textX = c.startX,
                                         !.foundTextPosition = FALSE,
                                         !.textMaxStartX = TextMaxStartX(c)]
    /\ UNCHANGED <<ts, config, eventSet, personColor, sortedPeople, personIndex,
                   placedItems, run, prevScene, scaleVars, renderVars, gdpVars>>

\* AfterScan going three line gaps down when the row has no place for the label
AfterScan_ThreeRows(c) ==
    IF c.foundTextPosition THEN [c EXCEPT !.foundPosition = TRUE]
    ELSE [c EXCEPT !.lineY = c.lineY + 3 * lineGap]

\* the code behind the label scan: accept the row or go one lineGap down
AfterScan(c) ==
    IF c.foundTextPosition THEN [c EXCEPT !.foundPosition = TRUE]
    ELSE [c EXCEPT !.lineY = c.lineY + lineGap]

\* one iteration of  while (textX <= textMaxStartX && !foundTextPosition)
LabelScan ==
    /\ pc = "scan"
    /\ IF cur.textX <= cur.textMaxStartX /\ ~cur.foundTextPosition
       THEN LET nearbyItems == NearbyItems(placedItems, cur.lineY)
                hit == FirstTextOverlap(nearbyItems, cur.textX, cur.textWidth)
                jumped == [cur EXCEPT !.textX = nearbyItems[hit].textX
                                                  + nearbyItems[hit].textWidth + textGap]
            IN  IF hit = 0
                THEN /\ cur' = [cur EXCEPT !.foundTextPosition = TRUE]
                     /\ pc' = "scan"
                ELSE IF jumped.textX > jumped.textMaxStartX
                THEN /\ cur' = AfterScan(jumped)
                     /\ pc' = "loop"
                ELSE /\ cur' = jumped
                     /\ pc' = "scan"
       ELSE /\ cur' = AfterScan(cur)
            /\ pc' = "loop"
    /\ UNCHANGED <<ts, config, eventSet, personColor, sortedPeople, personIndex,
                   placedItems, run, prevScene, scaleVars, renderVars, gdpVars>>

\* the code behind the search loop: skip the item or record its placement
RecordPlacement ==
    /\ pc = "after"
    /\ IF ~cur.foundPosition
       THEN placedItems' = placedItems
       ELSE placedItems' = Append(placedItems,
                [person |-> sortedPeople[personIndex],
                 lineY |-> cur.lineY,
                 startX |-> cur.startX,
                 endX |-> cur.endX,
                 textX |-> IF cur.textX > cur.maxTextX THEN cur.maxTextX ELSE cur.textX,
                 textWidth |-> cur.textWidth])
    /\ personIndex' = personIndex + 1
    /\ cur' = NoCur
    /\ pc' = "item"
    /\ UNCHANGED <<ts, config, eventSet, personColor, sortedPeople, run, prevScene,
                   scaleVars, renderVars, gdpVars>>

\* the sort by lineY and the color assignment; the drawing follows from Scene
FinishBand ==
    /\ pc = "finish"
    /\ IF isPresidentsBand
       THEN UNCHANGED <<placedItems, personColor>>
       ELSE /\ placedItems' = SortByLineY(placedItems)
            /\ personColor' = AssignColors(SortByLineY(placedItems), 1, personColor)
    /\ run' = run + 1
    /\ pc' = "done"
    /\ UNCHANGED <<ts, config, eventSet, sortedPeople, personIndex, cur, prevScene,
                   scaleVars, renderVars, gdpVars>>

\* the band is drawn again from the same event objects, time scale and settings
Rerender ==
    /\ pc = "done"
    /\ run < MaxRuns
    /\ prevScene' = Scene
    /\ sortedPeople' = <<>>
    /\ personIndex' = 1
    /\ pc' = "start"
    /\ UNCHANGED <<ts, config, eventSet, personColor, cur, placedItems, run, scaleVars, renderVars, gdpVars>>

Next ==
    \/ Prepare
    \/ PlacePresident
    \/ BeginItem
    \/ SearchLoop
    \/ LabelScan
    \/ RecordPlacement
    \/ FinishBand
    \/ Rerender

Spec == LayoutInit /\ [][Next]_vars

(***************************************************************************)
(* Visualization.render and Controls.updateVisualization                   *)
(***************************************************************************)

\* the number of render calls
MaxRenders == 3

\* the event sets rendered: <<name, events in file order, maxHeight>>
RenderedSets ==
    {<<"People", <<2, 3, 5>>, None>>, <<"Events", <<3, 4, 8>>, None>>,
     <<"Events", <<1, 2, 3, 4, 5>>, None>>,
     <<"Presidents", <<1, 2>>, 50 * Sub>>, <<"People", <<6, 9>>, 50 * Sub>>}

\* the settings of direct render calls: with and without a width
DirectSettings ==
    {[width |-> w, startYear |-> None, endYear |-> None] : w \in {None, WidthOf(2)}}

\* the values of the controls when updateVisualization runs
ControlInputs ==
    {[selected |-> TRUE,  startYear |-> VisibleStart,     endYear |-> VisibleEnd,   width |-> WidthOf(1)],
     [selected |-> TRUE,  startYear |-> VisibleStart + 1, endYear |-> VisibleEnd,   width |-> WidthOf(2)],
     [selected |-> TRUE,  startYear |-> VisibleEnd,       endYear |-> VisibleEnd,   width |-> WidthOf(2)],
     [selected |-> TRUE,  startYear |-> VisibleEnd,       endYear |-> VisibleStart, width |-> WidthOf(2)],
     [selected |-> FALSE, startYear |-> VisibleStart,     endYear |-> VisibleEnd,   width |-> WidthOf(2)]}

RenderInit ==
    /\ ts = LayoutScale
    /\ config = DefaultConfig
    /\ \E r \in RenderedSets :
          eventSet = [name |-> r[1], events |-> processEventSet(r[2]), maxHeight |-> r[3]]
    /\ personColor = [id \in Ids |-> NoColor]
    /\ pc = "idle"
    /\ sortedPeople = <<>>
    /\ personIndex = 1
    /\ cur = NoCur
    /\ placedItems = <<>>
    /\ run = 0
    /\ prevScene = <<>>
    /\ probe = NoProbe
    /\ ticks = <<>>
    /\ supplied = [paddingLeft |-> LayoutPaddingLeft, chartWidth |-> LayoutScale.chartWidth,
                   via |-> "constructor"]
    /\ RenderIdle
    /\ GDPIdle

\* if (settings.width) config.width = settings.width, and so on
ConfigAfter(cfg, s) ==
    [cfg EXCEPT !.width = OrElse(s.width, @),
                !.startYear = OrElse(s.startYear, @),
                !.endYear = OrElse(s.endYear, @),
                !.paddingLeft = LayoutPaddingLeft]

\* render(eventSets, timeScale, s) up to the drawing of the band
RenderCall(s) ==
    /\ pc \in {"idle", "done"}
    /\ run < MaxRenders
    /\ config' = ConfigAfter(config, s)
    /\ LET chartWidth == config'.width - config'.paddingLeft - PaddingRight
       IN  /\ ts' = updateDimensions(ts, config'.paddingLeft, chartWidth)
           /\ supplied' = [paddingLeft |-> config'.paddingLeft, chartWidth |-> chartWidth,
                           via |-> "updateDimensions"]
    /\ settings' = s
    /\ firstScene' = IF pc = "done" /\ settings \notin DOMAIN firstScene
                     THEN firstScene @@ (settings :> Scene)
                     ELSE firstScene
    /\ prevScene' = IF pc = "done" THEN Scene ELSE prevScene
    /\ sortedPeople' = <<>>
    /\ personIndex' = 1
    /\ pc' = "start"
    /\ UNCHANGED <<eventSet, personColor, cur, placedItems, run, probe, ticks, gdpVars, stack,
                   AppState, calls>>

\* Visualization.render called with settings of the caller's choice
Render ==
    /\ \E s \in DirectSettings : RenderCall(s)
    /\ UNCHANGED controls

\* if (startYear >= endYear)
InvalidRange_Greater(startYear, endYear) == startYear > endYear

InvalidRange(startYear, endYear) == startYear >= endYear

\* Controls.updateVisualization
UpdateVisualization ==
    /\ pc \in {"idle", "done"}
    /\ \E in \in ControlInputs :
          IF ~in.selected \/ InvalidRange(in.startYear, in.endYear)
          THEN /\ controls' = [startYear |-> in.startYear, endYear |-> in.endYear,
                               width |-> in.width, alert |-> TRUE]
               /\ UNCHANGED <<ts, layoutVars, scaleVars, settings, firstScene, gdpVars, stack,
                                 AppState, calls>>
          ELSE /\ controls' = [startYear |-> in.startYear, endYear |-> in.endYear,
                               width |-> in.width, alert |-> FALSE]
               /\ RenderCall([width |-> in.width, startYear |-> in.startYear,
                              endYear |-> in.endYear])

NextRender ==
    \/ Render
    \/ UpdateVisualization
    \/ Prepare
    \/ PlacePresident
    \/ BeginItem
    \/ SearchLoop
    \/ LabelScan
    \/ RecordPlacement
    \/ FinishBand

SpecRender == RenderInit /\ [][NextRender]_vars

(***************************************************************************)
(* drawGDPBlocsBand: the stacked polygons                                  *)
(***************************************************************************)

\* one row of the CSV file: a year and one share per bloc, in header order
Row(year, gdpPercent) == [year |-> year, gdpPercent |-> gdpPercent]

\* processGDPCSV: the header's bloc names and the rows, index-aligned per bloc
GDPTables ==
    {[blocList |-> <<"USA", "China", "EU">>,
      rows |-> <<Row(1890, <<10, 40, 30>>), Row(1900, <<15, 35, 30>>),
                 Row(1910, <<20, 30, 30>>), Row(1920, <<25, 20, 30>>),
                 Row(1930, <<30, 10, 30>>), Row(1940, <<40, 5, 25>>),
                 Row(1950, <<45, 5, 25>>),  Row(1960, <<40, 15, 20>>)>>],
     [blocList |-> <<"India", "UK">>,
      rows |-> <<Row(1900, <<60, 1>>), Row(1910, <<50, 1>>), Row(1920, <<50, 0>>),
                 Row(1930, <<60, 1>>), Row(1940, <<55, 1>>)>>],
     [blocList |-> <<"East", "West">>,
      rows |-> [i \in 1..12 |-> Row(1890 + 10 * i, <<50, 50>>)]]}

\* the visible ranges of the chart
GDPRanges == {<<1900, 1950>>, <<1890, 1941>>, <<2000, 2050>>, <<1900, 2020>>}

\* the widths of one year on the chart
GDPYearWidths == {2 * Sub, 10 * Sub, 21 * Sub}

\* eventSet.height: unset or 100 px
GDPHeights == {None, 100 * Sub}

\* const bandHeight = eventSet.height || 200
DefaultBandHeight == 200 * Sub

bandHeight == OrElse(gdpData.height, DefaultBandHeight)

GDPInit ==
    /\ \E table \in GDPTables, h \in GDPHeights :
          gdpData = [blocList |-> table.blocList, rows |-> table.rows, height |-> h]
    /\ \E r \in GDPRanges, w \in GDPYearWidths :
          LET chartWidth == (r[2] - r[1]) * w
          IN  /\ ts = NewTimeScale("linear", r[1], r[2], None, None, LayoutPaddingLeft, chartWidth)
              /\ config = [width |-> LayoutPaddingLeft + chartWidth + PaddingRight,
                           startYear |-> r[1], endYear |-> r[2],
                           paddingLeft |-> LayoutPaddingLeft]
              /\ supplied = [paddingLeft |-> LayoutPaddingLeft, chartWidth |-> chartWidth,
                             via |-> "constructor"]
    /\ eventSet = [name |-> "World Power", events |-> <<>>, maxHeight |-> None]
    /\ personColor = [id \in Ids |-> NoColor]
    /\ pc = "idle"
    /\ sortedPeople = <<>>
    /\ personIndex = 1
    /\ cur = NoCur
    /\ placedItems = <<>>
    /\ run = 0
    /\ prevScene = <<>>
    /\ probe = NoProbe
    /\ ticks = <<>>
    /\ RenderIdle
    /\ gpc = "polygons"
    /\ gloop = [i |-> 1, round |-> 0, labelPlaced |-> FALSE]
    /\ allBlocPoints = <<>>
    /\ blocData = <<>>
    /\ placedLabels = <<>>

\* const allDataPoints = blocs[blocList[0]]
allDataPoints == gdpData.rows

\* blocs[blocList[blocIndex]][index].gdpPercent
ShareAt(blocIndex, index) == allDataPoints[index].gdpPercent[blocIndex]

\* the years of visibleDataPoints: the rows in [startYear, endYear) and, when
\* there is one, a synthetic point at endYear + 1
visibleYears ==
    LET visible == SelectSeq(allDataPoints,
                             LAMBDA dp : dp.year >= ts.startYear /\ dp.year < ts.endYear)
        years == [i \in DOMAIN visible |-> visible[i].year]
    IN  IF Len(visible) > 0 THEN Append(years, ts.endYear + 1) ELSE years

\* dataIndex >= 0 ? dataIndex : allDataPoints.length - 1, with findIndex
actualIndex(year) ==
    LET found == {i \in DOMAIN allDataPoints : allDataPoints[i].year = year}
    IN  IF found /= {} THEN CHOOSE i \in found : \A j \in found : i <= j
        ELSE Len(allDataPoints)

\* the share values summed from the first bloc: for (let i = 0; i < blocIndex; i++)
RECURSIVE SumShares(_, _, _)
SumShares(first, blocIndex, index) ==
    IF first >= blocIndex THEN 0
    ELSE ShareAt(first, index) + SumShares(first + 1, blocIndex, index)

stackedPercent_FromSecond(blocIndex, index) == SumShares(2, blocIndex, index)

stackedPercent(blocIndex, index) == SumShares(1, blocIndex, index)

\* startY + bandHeight - (percent * bandHeight / 100)
EdgeY(percent) == bandY + bandHeight - (percent * bandHeight) \div 100

\* the top edge of a bloc's region
TopPoints(blocIndex) ==
    [k \in DOMAIN visibleYears |->
        LET year == visibleYears[k]
            index == actualIndex(year)
            currentBlocGDP == ShareAt(blocIndex, index)
        IN  [x |-> yearToX(ts, year),
             y |-> EdgeY(stackedPercent(blocIndex, index) + currentBlocGDP),
             year |-> year,
             gdpPercent |-> currentBlocGDP,
             stackedPercent |-> stackedPercent(blocIndex, index)]]

\* the bottom edge, in reverse order (unshift)
BottomPoints_Forward(blocIndex) ==
    [k \in DOMAIN visibleYears |->
        [x |-> yearToX(ts, visibleYears[k]),
         y |-> EdgeY(stackedPercent(blocIndex, actualIndex(visibleYears[k])))]]

BottomPoints(blocIndex) ==
    LET n == Len(visibleYears)
    IN  [k \in DOMAIN visibleYears |->
            LET year == visibleYears[n + 1 - k]
            IN  [x |-> yearToX(ts, year),
                 y |-> EdgeY(stackedPercent(blocIndex, actualIndex(year)))]]

\* one iteration of blocList.forEach: the closed path of a bloc, and the record
\* kept for the labels
DrawBloc ==
    /\ gpc = "polygons"
    /\ gloop.i <= Len(gdpData.blocList)
    /\ allBlocPoints' =
          IF Len(TopPoints(gloop.i)) > 0
          THEN Append(allBlocPoints,
                      [blocName |-> gdpData.blocList[gloop.i],
                       points |-> TopPoints(gloop.i),
                       bottomPoints |-> BottomPoints(gloop.i),
                       bandHeight |-> bandHeight])
          ELSE allBlocPoints
    /\ gloop' = [gloop EXCEPT !.i = @ + 1]
    /\ UNCHANGED <<gdpData, gpc, blocData, placedLabels, ts, layoutVars, scaleVars, renderVars>>

(***************************************************************************)
(* placeAllGDPBlocLabels                                                   *)
(***************************************************************************)

\* const chartRight = config.width - config.padding.right
chartRight == config.width - PaddingRight

\* point.year >= currentTimeScale.startYear && point.year <= currentTimeScale.endYear
InVisibleRange(point) == point.year >= ts.startYear /\ point.year <= ts.endYear

\* the years a labelled point must be away from the start year
MinStartDistance == 10

FarFromStart(point) == point.year - ts.startYear >= MinStartDistance

\* let peakGDP = 0, raised by the points within the visible range
peakGDP(points) ==
    LET shares == {points[k].gdpPercent : k \in {j \in DOMAIN points : InVisibleRange(points[j])}}
    IN  CHOOSE m \in shares \cup {0} : \A v \in shares \cup {0} : v <= m

\* allBlocPoints.map(...).sort((a, b) => a.peakGDP - b.peakGDP)
BlocDataOf_Unsorted(all) ==
    [i \in DOMAIN all |->
        [blocName |-> all[i].blocName, points |-> all[i].points,
         bandHeight |-> all[i].bandHeight, peakGDP |-> peakGDP(all[i].points)]]

BlocDataOf(all) ==
    StableSort(BlocDataOf_Unsorted(all), [i \in DOMAIN all |-> peakGDP(all[i].points)])

labelWidth(blocName) == Len(blocName) * 6 * Sub

labelHeight == 12 * Sub

rightMargin == 10 * Sub

\* labelRight > chartRight - rightMargin ? chartRight - rightMargin - labelWidth / 2 : x
adjustedX(blocName, x) ==
    IF x + labelWidth(blocName) \div 2 > chartRight - rightMargin
    THEN chartRight - rightMargin - labelWidth(blocName) \div 2
    ELSE x

\* if (blocPixelHeight >= 2)
ThickEnough_Always(blocPixelHeight) == TRUE

ThickEnough(blocPixelHeight) == blocPixelHeight >= 2 * Sub

\* (point.gdpPercent / 100) * bandHeight
blocPixelHeight(point, height) == (point.gdpPercent * height) \div 100

\* placeLabel(blocName, point.x, centerY, blocPixelHeight): the labels after the
\* call; phase records which loop made the call
placeLabel(labels, blocName, point, height, phase) ==
    IF ThickEnough(blocPixelHeight(point, height))
    THEN Append(labels,
                [x |-> adjustedX(blocName, point.x),
                 y |-> point.y + blocPixelHeight(point, height) \div 2,
                 width |-> labelWidth(blocName),
                 height |-> labelHeight,
                 blocName |-> blocName,
                 phase |-> phase])
    ELSE labels

\* the index of peakPoint after the loop over the points, 0 for null: a point
\* at the peak replaces the current one when there is none yet or when it is
\* far from the start
PeakPointIndex(bloc) ==
    LET atPeak == {k \in DOMAIN bloc.points :
                      InVisibleRange(bloc.points[k]) /\ bloc.points[k].gdpPercent = bloc.peakGDP}
        far == {k \in atPeak : FarFromStart(bloc.points[k])}
    IN  IF far /= {} THEN CHOOSE k \in far : \A j \in far : j <= k
        ELSE IF atPeak /= {} THEN CHOOSE k \in atPeak : \A j \in atPeak : k <= j
        ELSE 0

\* placeAllGDPBlocLabels up to the first loop
PlaceAllLabels ==
    /\ gpc = "polygons"
    /\ gloop.i > Len(gdpData.blocList)
    /\ blocData' = BlocDataOf(allBlocPoints)
    /\ placedLabels' = <<>>
    /\ gpc' = IF Len(allBlocPoints) = 0 THEN "phase2" ELSE "phase1"
    /\ gloop' = [i |-> 1, round |-> 0, labelPlaced |-> FALSE]
    /\ UNCHANGED <<gdpData, allBlocPoints, ts, layoutVars, scaleVars, renderVars>>

\* phase 1: one iteration of blocData.forEach
Phase1Label ==
    /\ gpc = "phase1"
    /\ gloop.i <= Len(blocData)
    /\ LET bloc == blocData[gloop.i]
           k == PeakPointIndex(bloc)
       IN  placedLabels' =
              IF k /= 0 /\ FarFromStart(bloc.points[k])
              THEN placeLabel(placedLabels, bloc.blocName, bloc.points[k], bloc.bandHeight, 1)
              ELSE placedLabels
    /\ IF gloop.i = Len(blocData)
       THEN /\ gpc' = "phase2"
            /\ gloop' = [i |-> 1, round |-> 0, labelPlaced |-> FALSE]
       ELSE /\ gpc' = gpc
            /\ gloop' = [gloop EXCEPT !.i = @ + 1]
    /\ UNCHANGED <<gdpData, allBlocPoints, blocData, ts, layoutVars, scaleVars, renderVars>>

\* const maxSecondaryLabels = 20
maxSecondaryLabels == 20

\* the score of a point that has no label of its own bloc: Infinity * sizeWeight
Infinity == 1000000000

\* minDistToOwnLabel * sizeWeight, in hundredths
Score(labels, blocName, point) ==
    LET own == {n \in DOMAIN labels : labels[n].blocName = blocName}
        dist == {Abs(point.x - labels[n].x) : n \in own}
    IN  IF own = {} THEN Infinity
        ELSE (CHOOSE d \in dist : \A e \in dist : d <= e) * point.gdpPercent

\* if (gdpPercent < 5) return; if (year - startYear < 10) return
Candidates(bloc) ==
    {k \in DOMAIN bloc.points : bloc.points[k].gdpPercent >= 5 /\ FarFromStart(bloc.points[k])}

\* the index of bestPoint, 0 for null: the first candidate with the highest score
BestPointIndex(labels, bloc) ==
    LET cand == Candidates(bloc)
        best(k) == \A j \in cand : Score(labels, bloc.blocName, bloc.points[j])
                                      <= Score(labels, bloc.blocName, bloc.points[k])
    IN  IF cand = {} THEN 0
        ELSE CHOOSE k \in cand : best(k) /\ \A j \in cand : best(j) => k <= j

\* bestScore > 100
FarEnough(score) == score > 100 * 100 * Sub

\* phase 2: one iteration of the loop over blocData within a round
Phase2Label ==
    /\ gpc = "phase2"
    /\ gloop.i <= Len(blocData)
    /\ LET bloc == blocData[gloop.i]
           k == BestPointIndex(placedLabels, bloc)
           after == IF k /= 0 /\ FarEnough(Score(placedLabels, bloc.blocName, bloc.points[k]))
                    THEN placeLabel(placedLabels, bloc.blocName, bloc.points[k], bloc.bandHeight, 2)
                    ELSE placedLabels
       IN  /\ placedLabels' = after
           /\ gloop' = [gloop EXCEPT !.i = @ + 1,
                                     !.labelPlaced = @ \/ Len(after) > Len(placedLabels)]
    /\ UNCHANGED <<gdpData, gpc, allBlocPoints, blocData, ts, layoutVars, scaleVars, renderVars>>

\* the end of a round: if (!labelPlaced) break; round++ while round < maxSecondaryLabels
EndRound ==
    /\ gpc = "phase2"
    /\ gloop.i > Len(blocData)
    /\ IF ~gloop.labelPlaced \/ gloop.round + 1 >= maxSecondaryLabels
       THEN /\ gpc' = "done"
            /\ gloop' = gloop
       ELSE /\ gpc' = gpc
            /\ gloop' = [i |-> 1, round |-> gloop.round + 1, labelPlaced |-> FALSE]
    /\ UNCHANGED <<gdpData, allBlocPoints, blocData, placedLabels, ts, layoutVars, scaleVars,
                   renderVars>>

NextGDP ==
    \/ DrawBloc
    \/ PlaceAllLabels
    \/ Phase1Label
    \/ Phase2Label
    \/ EndRound

SpecGDP == GDPInit /\ [][NextGDP]_vars

(***************************************************************************)
(* drawEventBands: the bands of one render call                            *)
(***************************************************************************)

\* config.bandSpacing
bandSpacing == 20 * Sub

\* const bottomPadding = 8
bottomPadding == 8 * Sub

\* config.padding.bottom = 32
FinalPaddingBottom == 32 * Sub

\* half the stroke width of a line: lineY + 1.5
HalfLineHeight == (3 * Sub) \div 2

\* an event set as render receives it
EventBand(name, fileOrder, limit) ==
    [type |-> "events", name |-> name, events |-> fileOrder, maxHeight |-> limit,
     height |-> None]

GDPBand(height) ==
    [type |-> "gdp-blocs", name |-> "World Power", events |-> <<>>, maxHeight |-> None,
     height |-> height]

\* the GDP table of the stacked charts: one row every second year
StackTable ==
    [blocList |-> <<"USA", "EU">>,
     rows |-> [i \in 1..6 |-> Row(8 + 2 * i, <<20 + 5 * i, 40 - 2 * i>>)]]

\* the selectedEventSets of the render calls
StackedSets ==
    {<<EventBand("Presidents", <<1, 2, 7>>, None), EventBand("People", <<6, 9, 3>>, 50 * Sub),
       GDPBand(None)>>,
     <<GDPBand(100 * Sub), EventBand("Events", <<3, 4, 8>>, None),
       EventBand("People", <<2, 5>>, None)>>,
     <<EventBand("People", <<2, 3, 5>>, None), EventBand("Events", <<1, 4, 10>>, None)>>,
     <<EventBand("Events", <<11>>, None)>>}

\* the eventSet argument of drawPeopleBand's caller for a selected set
EventSetOf(band) ==
    [name |-> band.name, events |-> processEventSet(band.events), maxHeight |-> band.maxHeight]

\* the gdpData of a selected set
GDPDataOf(band) ==
    IF band.type = "gdp-blocs"
    THEN [blocList |-> StackTable.blocList, rows |-> StackTable.rows, height |-> band.height]
    ELSE [blocList |-> <<>>, rows |-> <<>>, height |-> None]

StackInit ==
    /\ ts = LayoutScale
    /\ config = DefaultConfig
    /\ \E sets \in StackedSets :
          /\ stack = [sets |-> sets, index |-> 1, currentY |-> BandTop, bands |-> <<>>,
                      finalHeight |-> None]
          /\ eventSet = EventSetOf(sets[1])
          /\ gdpData = GDPDataOf(sets[1])
          /\ pc = IF sets[1].type = "gdp-blocs" THEN "idle" ELSE "start"
          /\ gpc = IF sets[1].type = "gdp-blocs" THEN "polygons" ELSE "idle"
    /\ personColor = [id \in Ids |-> NoColor]
    /\ sortedPeople = <<>>
    /\ personIndex = 1
    /\ cur = NoCur
    /\ placedItems = <<>>
    /\ run = 0
    /\ prevScene = <<>>
    /\ probe = NoProbe
    /\ ticks = <<>>
    /\ supplied = [paddingLeft |-> LayoutPaddingLeft, chartWidth |-> LayoutScale.chartWidth,
                   via |-> "updateDimensions"]
    /\ settings = NoSettings
    /\ firstScene = <<>>
    /\ controls = NoControls
    /\ AppState = NoAppState
    /\ calls = <<>>
    /\ gloop = [i |-> 1, round |-> 0, labelPlaced |-> FALSE]
    /\ allBlocPoints = <<>>
    /\ blocData = <<>>
    /\ placedLabels = <<>>

\* drawPeopleBand's return value: the lowest line's bottom, or baseY
maxY ==
    IF Len(placedItems) > 0
    THEN LET ys == {placedItems[i].lineY + HalfLineHeight : i \in DOMAIN placedItems}
         IN  CHOOSE y \in ys : \A z \in ys : z <= y
    ELSE baseY

\* drawEventBand's return value for the band just drawn
actualHeight ==
    IF stack.sets[stack.index].type = "gdp-blocs" THEN bandHeight
    ELSE (maxY - bandY) + bottomPadding

\* currentY after a band, without the spacing
NextY_NoSpacing(y, height, last) == y + height

\* currentY += bandHeight; if (index < selectedEventSets.length - 1) currentY += bandSpacing
NextY(y, height, last) == IF last THEN y + height ELSE y + height + bandSpacing

\* the end of one callback of selectedEventSets.forEach: the band's height is
\* known, currentY moves on and the next band, if any, is begun
EndBand ==
    /\ stack.index <= Len(stack.sets)
    /\ IF stack.sets[stack.index].type = "gdp-blocs" THEN gpc = "done" ELSE pc = "done"
    /\ LET last == stack.index = Len(stack.sets)
           next == IF last THEN stack.sets[stack.index] ELSE stack.sets[stack.index + 1]
       IN  /\ stack' = [stack EXCEPT
                  !.bands = Append(@, [name |-> stack.sets[stack.index].name,
                                       y |-> stack.currentY, height |-> actualHeight]),
                  !.currentY = NextY(@, actualHeight, last),
                  !.index = @ + 1]
           /\ IF last
              THEN /\ pc' = "idle"
                   /\ gpc' = "idle"
                   /\ UNCHANGED <<eventSet, gdpData>>
              ELSE /\ eventSet' = EventSetOf(next)
                   /\ gdpData' = GDPDataOf(next)
                   /\ pc' = IF next.type = "gdp-blocs" THEN "idle" ELSE "start"
                   /\ gpc' = IF next.type = "gdp-blocs" THEN "polygons" ELSE "idle"
    /\ sortedPeople' = <<>>
    /\ personIndex' = 1
    /\ gloop' = [i |-> 1, round |-> 0, labelPlaced |-> FALSE]
    /\ allBlocPoints' = <<>>
    /\ blocData' = <<>>
    /\ placedLabels' = <<>>
    /\ UNCHANGED <<ts, config, personColor, cur, placedItems, run, prevScene, scaleVars,
                   settings, firstScene, controls, AppState, calls>>

\* render behind drawEventBands: the final height of the canvas
FinishRender ==
    /\ stack.index > Len(stack.sets)
    /\ stack.finalHeight = None
    /\ stack' = [stack EXCEPT !.finalHeight = stack.currentY + FinalPaddingBottom]
    /\ UNCHANGED <<ts, layoutVars, scaleVars, settings, firstScene, controls, gdpVars,
                   AppState, calls>>

NextBands ==
    \/ Prepare
    \/ PlacePresident
    \/ BeginItem
    \/ SearchLoop
    \/ LabelScan
    \/ RecordPlacement
    \/ FinishBand
    \/ DrawBloc
    \/ PlaceAllLabels
    \/ Phase1Label
    \/ Phase2Label
    \/ EndRound
    \/ EndBand
    \/ FinishRender

SpecBands == StackInit /\ [][NextBands]_vars

(***************************************************************************)
(* main.js: initializeTimeline                                             *)
(***************************************************************************)

\* the number of initializeTimeline calls
MaxCalls == 2

TimelineIds == {"us", "world"}

\* TimelineConfig.getConfig(timelineId), with the data found under dataPath;
\* both timelines are linear here, the kind of scale plays no part
getConfig(timelineId) ==
    IF timelineId = "us"
    THEN [id |-> "us", startYear |-> VisibleStart, endYear |-> VisibleEnd,
          scale |-> "linear", defaultWidth |-> WidthOf(1),
          data |-> [name |-> "Presidents", events |-> <<1, 2>>]]
    ELSE [id |-> "world", startYear |-> VisibleStart - 2, endYear |-> VisibleEnd,
          scale |-> "linear", defaultWidth |-> WidthOf(2),
          data |-> [name |-> "People", events |-> <<6, 9, 3>>]]

\* AppState.timeScale before the first timeline is loaded: null
NullScale == NewTimeScale("linear", None, None, None, None, None, None)

\* const initialPadding = { top: 100, right: 40, bottom: 60, left: 140 }
InitialPaddingLeft == 140 * Sub

\* Controls.init: let defaultMaxHeight = 80
ControlsMaxHeight == 80 * Sub

TimelineInit ==
    /\ ts = NullScale
    /\ config = DefaultConfig
    /\ eventSet = [name |-> "", events |-> <<>>, maxHeight |-> None]
    /\ personColor = [id \in Ids |-> NoColor]
    /\ pc = "idle"
    /\ sortedPeople = <<>>
    /\ personIndex = 1
    /\ cur = NoCur
    /\ placedItems = <<>>
    /\ run = 0
    /\ prevScene = <<>>
    /\ probe = NoProbe
    /\ ticks = <<>>
    /\ supplied = [paddingLeft |-> None, chartWidth |-> None, via |-> "constructor"]
    /\ RenderIdle
    /\ GDPIdle

\* initializeTimeline up to the await: the change listener, the popstate
\* listener or the startup code calls it while nothing else runs
InitializeTimeline ==
    /\ pc \in {"idle", "done"}
    /\ Len(calls) < MaxCalls
    /\ \E timelineId \in TimelineIds :
          LET cfg == getConfig(timelineId)
          IN  /\ AppState' = [AppState EXCEPT !.currentTimelineId = timelineId,
                                              !.timelineConfig = cfg]
              /\ controls' = [controls EXCEPT !.startYear = cfg.startYear,
                                              !.endYear = cfg.endYear,
                                              !.width = cfg.defaultWidth]
              /\ calls' = Append(calls,
                                 [timelineId |-> timelineId, loading |-> TRUE,
                                  overlapped |-> \E k \in DOMAIN calls : calls[k].loading])
    /\ UNCHANGED <<ts, layoutVars, scaleVars, settings, firstScene, stack, gdpVars>>

\* a call resumes when its DataLoader.loadAllEventSets promise is fulfilled
Resumable(k) == calls[k].loading

\* initializeTimeline behind the await, for any call whose data has arrived:
\* AppState.eventSets, the new TimeScale, Controls.init and
\* Controls.updateVisualization with the values of the form, up to the
\* drawing of the band
LoadCompletes ==
    /\ pc \in {"idle", "done"}
    /\ \E k \in DOMAIN calls :
          /\ Resumable(k)
          /\ LET cfg == getConfig(calls[k].timelineId)
                 initialChartWidth == cfg.defaultWidth - InitialPaddingLeft - PaddingRight
                 timeScale == NewTimeScale(cfg.scale, cfg.startYear, cfg.endYear, None, None,
                                           InitialPaddingLeft, initialChartWidth)
                 s == [width |-> controls.width, startYear |-> controls.startYear,
                       endYear |-> controls.endYear]
             IN  /\ AppState' = [AppState EXCEPT !.eventSets = cfg.data]
                 /\ calls' = [calls EXCEPT ![k].loading = FALSE]
                 /\ eventSet' = [name |-> cfg.data.name,
                                 events |-> processEventSet(cfg.data.events),
                                 maxHeight |-> ControlsMaxHeight]
                 /\ IF InvalidRange(controls.startYear, controls.endYear)
                    THEN /\ controls' = [controls EXCEPT !.alert = TRUE]
                         /\ ts' = timeScale
                         /\ UNCHANGED <<config, supplied, settings, sortedPeople, personIndex, pc>>
                    ELSE /\ controls' = [controls EXCEPT !.alert = FALSE]
                         /\ config' = ConfigAfter(config, s)
                         /\ LET chartWidth == config'.width - config'.paddingLeft - PaddingRight
                            IN  /\ ts' = updateDimensions(timeScale, config'.paddingLeft, chartWidth)
                                /\ supplied' = [paddingLeft |-> config'.paddingLeft,
                                                chartWidth |-> chartWidth,
                                                via |-> "updateDimensions"]
                         /\ settings' = s
                         /\ sortedPeople' = <<>>
                         /\ personIndex' = 1
                         /\ pc' = "start"
    /\ UNCHANGED <<personColor, cur, placedItems, run, prevScene, probe, ticks, firstScene,
                   stack, gdpVars>>

NextTimeline ==
    \/ InitializeTimeline
    \/ LoadCompletes
    \/ Prepare
    \/ PlacePresident
    \/ BeginItem
    \/ SearchLoop
    \/ LabelScan
    \/ RecordPlacement
    \/ FinishBand

SpecTimeline == TimelineInit /\ [][NextTimeline]_vars

(***************************************************************************)
(* TimeScale as a state machine: one TimeScale object, its dimensions      *)
(* updated and its methods called in any order                             *)
(***************************************************************************)

\* the linear timelines: <<startYear, endYear>>
LinearRanges == {<<0 - 4, 6>>, <<1, 9>>, <<1990, 2000>>, <<0 - 12000, 2000>>}

\* the logarithmic timelines: <<startYear, endYear, referenceYear, base>>
LogRanges ==
    {<<0 - 47, 15, 16, 2>>, <<1, 13, 16, 2>>, <<0 - 54, 24, 26, 3>>,
     <<1989, 2245, 2500, 2>>, <<0 - 63035, 1989, 2500, 2>>,
     <<0 - 2000000000, 2025, 2600, 2>>, <<1, 60000, 70000, 2>>}

\* the values of padding.left
PaddingLefts == {100 * Sub, 140 * Sub}

\* the chart widths at which every year of the range (linear) or every
\* year with an integer logarithm (logarithmic) has an integer x
ChartWidths(t) ==
    LET unit == IF t.scale = "linear" THEN t.endYear - t.startYear
                ELSE t.maxLogValue - t.minLogValue
    IN  {unit * Sub, unit * 3 * Sub}

\* the timelines: <<scale, startYear, endYear, referenceYear, base>>
Timelines ==
    {<<"linear", r[1], r[2], None, None>> : r \in LinearRanges}
      \cup {<<"logarithmic", r[1], r[2], r[3], r[4]>> : r \in LogRanges}

\* calculateLog is exact at both ends of the range
ExactEnds(t) ==
    t.scale = "logarithmic" =>
        /\ IsPowerOf(t.base, t.referenceYear - t.startYear + t.offset)
        /\ IsPowerOf(t.base, t.referenceYear - t.endYear + t.offset)

\* the years of [startYear, endYear] that are mapped in exact arithmetic:
\* in linear mode all of them (of a long range: its ends, their neighbours,
\* its middle and the years around 0), in logarithmic mode those whose
\* distance to the reference year has an integer logarithm
ProbeYears(t) ==
    IF t.scale = "linear"
    THEN IF t.endYear - t.startYear <= 20 THEN t.startYear..t.endYear
         ELSE {t.startYear, t.startYear + 1, (t.startYear + t.endYear) \div 2,
               t.endYear - 1, t.endYear} \cup ({0 - 1, 0, 1} \cap (t.startYear..t.endYear))
    ELSE IF ~ExactEnds(t) THEN {}
    ELSE {t.referenceYear + t.offset - Pow(t.base, k) :
             k \in t.minLogValue..t.maxLogValue}

ScaleInit ==
    /\ \E c \in Timelines : \E p \in PaddingLefts :
          \E w \in ChartWidths(NewTimeScale(c[1], c[2], c[3], c[4], c[5], p, 0)) :
              /\ ts = NewTimeScale(c[1], c[2], c[3], c[4], c[5], p, w)
              /\ supplied = [paddingLeft |-> p, chartWidth |-> w, via |-> "constructor"]
              /\ config = [width |-> p + w + PaddingRight, startYear |-> c[2],
                            endYear |-> c[3], paddingLeft |-> p]
    /\ probe = NoProbe
    /\ ticks = <<>>
    /\ RenderIdle
    /\ GDPIdle
    /\ eventSet = [name |-> "Events", events |-> <<>>, maxHeight |-> None]
    /\ personColor = [id \in Ids |-> NoColor]
    /\ pc = "idle"
    /\ sortedPeople = <<>>
    /\ personIndex = 1
    /\ cur = NoCur
    /\ placedItems = <<>>
    /\ run = 0
    /\ prevScene = <<>>

\* timeScale.updateDimensions(padding, chartWidth)
UpdateDimensions ==
    /\ \E p \in PaddingLefts : \E w \in ChartWidths(ts) :
          /\ ts' = updateDimensions(ts, p, w)
          /\ supplied' = [paddingLeft |-> p, chartWidth |-> w, via |-> "updateDimensions"]
    /\ probe' = NoProbe
    /\ ticks' = <<>>
    /\ UNCHANGED <<layoutVars, renderVars, gdpVars>>

\* yearToX of two years of the range, and xToYear of the first result
Probe ==
    /\ \E y1 \in ProbeYears(ts) : \E y2 \in ProbeYears(ts) :
          probe' = [valid |-> TRUE, y1 |-> y1, y2 |-> y2,
                    x1 |-> yearToX(ts, y1), x2 |-> yearToX(ts, y2),
                    back |-> xToYear(ts, yearToX(ts, y1))]
    /\ ticks' = <<>>
    /\ UNCHANGED <<ts, supplied, layoutVars, renderVars, gdpVars>>

\* timeScale.getAxisTicks()
GetAxisTicks ==
    /\ ticks' = getAxisTicks(ts)
    /\ probe' = NoProbe
    /\ UNCHANGED <<ts, supplied, layoutVars, renderVars, gdpVars>>

NextScale ==
    \/ UpdateDimensions
    \/ Probe
    \/ GetAxisTicks

SpecScale == ScaleInit /\ [][NextScale]_vars

(***************************************************************************)
(* Properties of the band layout                                           *)
(***************************************************************************)

\* the closed line ranges [startX, endX] of two placed items share a point
LinesOverlap(a, b) == Max(a.startX, b.startX) <= Min(a.endX, b.endX)

NoLineCollision ==
    \A i, j \in DOMAIN placedItems :
        (i < j /\ LinesOverlap(placedItems[i], placedItems[j]))
            => Abs(placedItems[i].lineY - placedItems[j].lineY) >= lineGap

\* C1 as claimed: in every band, the alternating layout included, two placed
\* items whose line ranges overlap lie at least lineGap apart vertically
C1_AllLayouts == NoLineCollision

\* C1 (amended): in every band laid out by the general greedy layout, two
\* placed items whose line ranges [startX, endX] overlap have line Y positions
\* that differ by at least lineGap
C1_NoLineCollision == ~isPresidentsBand => NoLineCollision

C1_Witness ==
    /\ ~isPresidentsBand
    /\ pc = "done"
    /\ \E i, j \in DOMAIN placedItems :
          /\ i < j
          /\ LinesOverlap(placedItems[i], placedItems[j])
          /\ Abs(placedItems[i].lineY - placedItems[j].lineY) = lineGap

\* the labels of a and b keep textGap between them
LabelsApart(a, b) ==
    \/ a.textX + a.textWidth + textGap <= b.textX
    \/ b.textX + b.textWidth + textGap <= a.textX

NoLabelCollision ==
    \A i, j \in DOMAIN placedItems :
        (i < j /\ Abs(placedItems[i].lineY - placedItems[j].lineY)
                     < verticalTextOverlapThreshold)
            => LabelsApart(placedItems[i], placedItems[j])

\* C2 as claimed: in every band, the alternating layout included, two placed
\* items less than 18 px apart vertically have labels at least textGap apart
C2_AllLayouts == NoLabelCollision

\* C2 (amended): in every band laid out by the general greedy layout, two
\* placed items whose line Y positions differ by less than 18 px have label
\* ranges [textX, textX + textWidth] separated by at least textGap
C2_NoLabelCollision == ~isPresidentsBand => NoLabelCollision

C2_Witness ==
    /\ ~isPresidentsBand
    /\ pc = "done"
    /\ \E i, j \in DOMAIN placedItems :
          /\ i < j
          /\ Abs(placedItems[i].lineY - placedItems[j].lineY) < verticalTextOverlapThreshold
          /\ placedItems[i].startX = placedItems[j].startX
          /\ placedItems[i].textX # placedItems[j].textX

WithinBudget ==
    \A i \in DOMAIN placedItems :
        (placedItems[i].lineY + textHeight) - bandY <= maxHeight

\* C3 as claimed: in every layout variant every placed item satisfies
\* (lineY + textHeight) - bandTop <= maxHeight
C3_AllLayouts == WithinBudget

\* C3 (amended): every item the general greedy layout places satisfies
\* (lineY + textHeight) - bandTop <= maxHeight, and an item whose search
\* stopped at the height limit is not among the placed items
C3_HeightBudget ==
    ~isPresidentsBand =>
        /\ WithinBudget
        /\ (pc = "after" /\ ExceedsHeight(cur.lineY)) => ~cur.foundPosition

\* an item was dropped at the height limit while others were placed within it
C3_Witness ==
    /\ ~isPresidentsBand
    /\ eventSet.maxHeight # None
    /\ pc = "after"
    /\ ExceedsHeight(cur.lineY)
    /\ placedItems # <<>>

\* C4: laying the band out a second time from the same event objects, time
\* scale and settings yields the scene of the first layout: the same placed
\* items with the same lineY, startX, endX, textX and color
C4_Deterministic == (pc = "done" /\ run >= 2) => Scene = prevScene

C4_Witness ==
    /\ ~isPresidentsBand
    /\ pc = "done"
    /\ run >= 2
    /\ Len(placedItems) >= 2
    /\ \E i \in DOMAIN Scene : Scene[i].color # colors[1]

\* the end year the visibility filter gives an event
EffectiveEnd(e) == OrElse(e.endYear, IF isPeopleBand THEN ts.endYear ELSE e.startYear)

\* C5: the general layout processes items in ascending priority and, within
\* one priority, in descending effective end year, open-ended lifespan items
\* counting as ending at the visible end year
C5_ProcessingOrder ==
    (pc # "start" /\ ~isPresidentsBand) =>
        \A i, j \in DOMAIN sortedPeople :
            i < j =>
                LET a == Catalog[sortedPeople[i]]
                    b == Catalog[sortedPeople[j]]
                IN  \/ a.priority < b.priority
                    \/ a.priority = b.priority /\ EffectiveEnd(a) >= EffectiveEnd(b)

\* the jump targets of the label scan that lie to the right of textX
ScanTargets ==
    {i \in DOMAIN placedItems :
        placedItems[i].textX + placedItems[i].textWidth + textGap > cur.textX}

\* a bound on the steps the layout has left: every step lowers it
Variant ==
    LET n        == Len(eventSet.events)
        scanW    == n + 3
        itemW    == 3 + SafetyLimit * scanW
        startW   == (n + 2) * itemW
        runW     == startW + 2
        left     == Len(sortedPeople) - personIndex + 1
        searches == SafetyLimit - cur.safetyCounter
        scanLeft == IF cur.foundTextPosition THEN 1
                    ELSE 2 + Cardinality(ScanTargets)
        phase    == CASE pc = "start"      -> startW
                      [] pc = "item"       -> (left + 1) * itemW
                      [] pc = "loop"       -> left * itemW + 2 + searches * scanW
                      [] pc = "scan"       -> left * itemW + 2 + searches * scanW + scanLeft
                      [] pc = "after"      -> left * itemW + 1
                      [] pc = "presidents" -> 2 + left
                      [] pc = "finish"     -> 1
                      [] pc = "done"       -> runW - 1
    IN  (MaxRuns - run) * runW + phase

\* C6: the search loop of an item runs at most 50 iterations, an item whose
\* search ended without a position is not recorded, and the layout of the
\* band comes to its end: every step of it (every step of a label scan
\* included) lowers a bound that is never negative
C6_BoundedSearch ==
    /\ [](cur.safetyCounter <= SafetyLimit)
    /\ [][(pc = "after" /\ ~cur.foundPosition) => placedItems' = placedItems]_vars
    /\ [](Variant >= 0)
    /\ [][Variant' < Variant]_vars

\* a search that used up all 50 iterations without finding a position
C6_Witness ==
    /\ pc = "after"
    /\ cur.safetyCounter = SafetyLimit
    /\ ~cur.foundPosition
    /\ ~ExceedsHeight(cur.lineY)

(***************************************************************************)
(* Properties of TimeScale                                                 *)
(***************************************************************************)

C8_Monotonic ==
    (probe.valid /\ probe.y1 < probe.y2) => probe.x1 < probe.x2

C8_Witness ==
    /\ probe.valid
    /\ ts.scale = "logarithmic"
    /\ ts.referenceYear > ts.endYear
    /\ probe.y1 < probe.y2
    /\ probe.x1 < probe.x2

\* C9: in linear mode yearToX maps startYear to padding.left, endYear to
\* padding.left + chartWidth and the year midway between them to
\* padding.left + chartWidth / 2, for the padding and chartWidth supplied last
C9_LinearEnds ==
    (probe.valid /\ ts.scale = "linear") =>
        /\ probe.y1 = ts.startYear => probe.x1 = supplied.paddingLeft
        /\ probe.y2 = ts.endYear => probe.x2 = supplied.paddingLeft + supplied.chartWidth
        /\ 2 * probe.y1 = ts.startYear + ts.endYear
              => 2 * probe.x1 = 2 * supplied.paddingLeft + supplied.chartWidth

\* the midpoint and the end year probed after a change of the dimensions
C9_Witness ==
    /\ probe.valid
    /\ supplied.via = "updateDimensions"
    /\ ts.scale = "linear"
    /\ 2 * probe.y1 = ts.startYear + ts.endYear
    /\ probe.y2 = ts.endYear
    /\ supplied.paddingLeft = 100 * Sub
    /\ supplied.chartWidth = (ts.endYear - ts.startYear) * 3 * Sub

\* C10: getAxisTicks returns its ticks in ascending order of year
C10_TicksSorted ==
    \A i \in DOMAIN ticks : i < Len(ticks) => ticks[i].year < ticks[i + 1].year

\* C11: no tick that getAxisTicks returns has year 0
C11_NoYearZero == \A i \in DOMAIN ticks : ticks[i].year # 0

\* getAxisTicks has returned after a year-0 tick was generated
C11_Witness ==
    /\ ticks # <<>>
    /\ \E i \in DOMAIN UnfilteredTicks(ts) : UnfilteredTicks(ts)[i].year = 0

\* the ticks of year 1 in the latest result of getAxisTicks
YearOneTicks == {i \in DOMAIN ticks : ticks[i].year = 1}

\* C12: when startYear <= 1 <= endYear the result of getAxisTicks holds
\* exactly one tick of year 1 and that tick is labelled; when year 1 is
\* outside the range the result holds no tick of year 1
C12_ReferenceTick ==
    ticks # <<>> =>
        IF ts.startYear <= 1 /\ 1 <= ts.endYear
        THEN /\ Cardinality(YearOneTicks) = 1
             /\ \A i \in YearOneTicks : ticks[i].showLabel
        ELSE YearOneTicks = {}

\* the year-1 tick was there before ensureReferenceTick ran (the start year
\* tick of a large logarithmic range) and is still the only one
C12_Witness ==
    /\ ticks # <<>>
    /\ ts.scale = "logarithmic"
    /\ ts.startYear = 1
    /\ ts.endYear - ts.startYear > 50000
    /\ Cardinality(YearOneTicks) = 1

(***************************************************************************)
(* Properties of single placements                                         *)
(***************************************************************************)

\* two point events with the same start year, the same priority and
\* 5-character labels
Twins(a, b) ==
    /\ a.endYear = None /\ b.endYear = None
    /\ a.displayYear = None /\ b.displayYear = None
    /\ a.startYear = b.startYear
    /\ a.priority = b.priority
    /\ a.nameLength = 5 /\ b.nameLength = 5

\* a point-event band of two twins has been laid out and both are placed
TwinsPlaced ==
    /\ pc = "done"
    /\ ~isPeopleBand
    /\ ~isPresidentsBand
    /\ Len(sortedPeople) = 2
    /\ Twins(Catalog[sortedPeople[1]], Catalog[sortedPeople[2]])
    /\ Len(placedItems) = 2

\* the first processed item lies at the baseline, the second gap below it
TwinsApart(gap) ==
    \E i, j \in DOMAIN placedItems :
        /\ placedItems[i].person = sortedPeople[1]
        /\ placedItems[i].lineY = baseY
        /\ placedItems[j].person = sortedPeople[2]
        /\ placedItems[j].lineY = baseY + gap

\* C14 as claimed: the second twin's line lies one lineGap below the first
C14_OneLineGap == TwinsPlaced => TwinsApart(lineGap)

\* C14 (amended): of two point events with the same start year, the same
\* priority and 5-character labels the first is placed at the band baseline
\* and the second three lineGaps (18 px, the label proximity threshold)
\* below it
C14_ThreeLineGaps == TwinsPlaced => TwinsApart(3 * lineGap)

C14_Witness == TwinsPlaced /\ TwinsApart(3 * lineGap)

\* the x of the year at which the general layout displays an event
DisplayX(e) == yearToX(ts, OrElse(e.displayYear, e.startYear))

\* the placed items that have no end year
OpenEndedPlaced == {i \in DOMAIN placedItems : Catalog[placedItems[i].person].endYear = None}

C16_Clipped ==
    \A i \in DOMAIN placedItems :
        LET e == Catalog[placedItems[i].person]
        IN  (~isPresidentsBand /\ e.endYear # None) =>
                /\ e.startYear < ts.startYear
                      => placedItems[i].startX = config.paddingLeft
                /\ e.endYear > ts.endYear => placedItems[i].endX = rightEdge

\* C17: in the scene of a finished layout, general or alternating, every
\* item that carries a color of its own is drawn in exactly that color
C17_ExplicitColor ==
    pc = "done" =>
        \A i \in DOMAIN Scene :
            Catalog[Scene[i].person].color # NoColor
                => Scene[i].color = Catalog[Scene[i].person].color

\* an item with a color of its own drawn below two items whose colors were
\* computed
C17_Witness ==
    /\ pc = "done"
    /\ ~isPresidentsBand
    /\ Len(Scene) = 3
    /\ Catalog[Scene[3].person].color # NoColor
    /\ Scene[3].color = Catalog[Scene[3].person].color
    /\ Scene[3].color # ColorFor_IgnoreOwn(placedItems, 3, personColor)

(***************************************************************************)
(* Properties of render and updateVisualization                            *)
(***************************************************************************)

\* C18: the scene a render call draws depends on its arguments only: it is
\* the scene that the first render call with the same settings drew
C18_SceneFromArguments ==
    (pc = "done" /\ settings \in DOMAIN firstScene) => Scene = firstScene[settings]

\* C19: an updateVisualization call (a step that changes the controls' values)
\* with start year >= end year signals the error and calls no render: the time scale, the configuration, the layout
\* state and the scene stay as they were
C19_InvalidRange ==
    [][(controls' /= controls /\ controls'.startYear >= controls'.endYear)
          => /\ controls'.alert
             /\ UNCHANGED <<ts, layoutVars, scaleVars, settings, firstScene>>]_vars

\* the error was signalled while a scene of three items was on display
C19_Witness ==
    /\ controls.startYear >= controls.endYear
    /\ controls.alert
    /\ pc = "done"
    /\ Len(Scene) = 3

(***************************************************************************)
(* Properties of drawGDPBlocsBand and placeAllGDPBlocLabels                *)
(***************************************************************************)

\* the index of the source row of a visible sample of a drawn bloc (0 for the
\* synthetic point)
SourceRow(year) ==
    IF \E i \in DOMAIN allDataPoints : allDataPoints[i].year = year
    THEN CHOOSE i \in DOMAIN allDataPoints : allDataPoints[i].year = year
    ELSE 0

\* the sum of all blocs' shares in a source row
RECURSIVE TotalShare(_, _)
TotalShare(row, n) ==
    IF n = 0 THEN 0 ELSE allDataPoints[row].gdpPercent[n] + TotalShare(row, n - 1)

AllBlocsDrawn == Len(allBlocPoints) = Len(gdpData.blocList) /\ Len(allBlocPoints) > 0

\* C13: at every visible sample of the source data the top edge of the last
\* bloc lies at bandBottom - (sum of all blocs' shares in the source row) *
\* bandHeight / 100, and the heights of the blocs' slices add up to that sum
C13_StackTotal ==
    AllBlocsDrawn =>
        LET n == Len(allBlocPoints)
            last == allBlocPoints[n]
            m == Len(last.points)
            SliceHeight(b, k) == allBlocPoints[b].bottomPoints[m + 1 - k].y
                                    - allBlocPoints[b].points[k].y
            RECURSIVE Heights(_, _)
            Heights(b, k) == IF b = 0 THEN 0 ELSE SliceHeight(b, k) + Heights(b - 1, k)
        IN  \A k \in DOMAIN last.points :
               SourceRow(last.points[k].year) /= 0 =>
                  LET total == TotalShare(SourceRow(last.points[k].year), n)
                  IN  /\ last.points[k].y = BandTop + bandHeight - (total * bandHeight) \div 100
                      /\ Heights(n, k) = (total * bandHeight) \div 100

\* three blocs are drawn over five visible samples whose shares add up to
\* less than 100
C13_Witness ==
    /\ AllBlocsDrawn
    /\ Len(allBlocPoints) = 3
    /\ Len(allBlocPoints[3].points) = 6
    /\ \E k \in 1..5 : TotalShare(SourceRow(allBlocPoints[3].points[k].year), 3) < 100

\* the phase-1 labels of a bloc, as indices of placedLabels
Phase1LabelsOf(blocName) ==
    {n \in DOMAIN placedLabels : placedLabels[n].phase = 1 /\ placedLabels[n].blocName = blocName}

Phase1Done == gpc \in {"phase2", "done"} /\ Len(blocData) > 0

\* the blocs are held, and their phase-1 labels placed, in ascending order of
\* peak share
AscendingPeaks ==
    /\ \A a, b \in DOMAIN blocData : a < b => blocData[a].peakGDP <= blocData[b].peakGDP
    /\ \A n, m \in DOMAIN placedLabels :
          (n < m /\ placedLabels[n].phase = 1 /\ placedLabels[m].phase = 1)
             => \E a, b \in DOMAIN blocData :
                   /\ a < b
                   /\ blocData[a].blocName = placedLabels[n].blocName
                   /\ blocData[b].blocName = placedLabels[m].blocName

\* the samples of a bloc within the visible range where its share is maximal
PeakSamples(bloc) ==
    {k \in DOMAIN bloc.points :
        /\ InVisibleRange(bloc.points[k])
        /\ \A j \in DOMAIN bloc.points :
              InVisibleRange(bloc.points[j]) => bloc.points[j].gdpPercent <= bloc.points[k].gdpPercent}

SecondaryLabels == {n \in DOMAIN placedLabels : placedLabels[n].phase = 2}

\* C25: phase 2 places at most 20 supplementary labels over all blocs
\* (maxSecondaryLabels), whatever the number of rounds
C25_LabelCount == Cardinality(SecondaryLabels) <= maxSecondaryLabels

\* C28: in every drawn polygon the bottom edge runs over the same samples as
\* the top edge; the bottom edge of the first bloc is the band bottom and the
\* bottom edge of every further bloc is the top edge of the bloc drawn before it
C28_NoGaps ==
    \A b \in DOMAIN allBlocPoints :
       LET m == Len(allBlocPoints[b].points)
       IN  /\ Len(allBlocPoints[b].bottomPoints) = m
           /\ \A k \in 1..m :
                 LET top == allBlocPoints[b].points[k]
                     bottom == allBlocPoints[b].bottomPoints[m + 1 - k]
                 IN  /\ bottom.x = top.x
                     /\ bottom.y = IF b = 1 THEN BandTop + bandHeight
                                   ELSE allBlocPoints[b - 1].points[k].y

\* three blocs of different, non-symmetric shares are drawn over six samples
C28_Witness ==
    /\ Len(allBlocPoints) = 3
    /\ Len(allBlocPoints[3].points) = 6
    /\ allBlocPoints[2].points[1].y /= allBlocPoints[2].points[5].y
    /\ allBlocPoints[3].points[1].y < allBlocPoints[2].points[1].y

\* C29: at the synthetic sample at endYear + 1 every bloc has the share, and
\* so the top edge, of its last visible sample
C29_SyntheticPoint ==
    \A b \in DOMAIN allBlocPoints :
       LET points == allBlocPoints[b].points
           m == Len(points)
       IN  (m >= 2 /\ points[m].year = ts.endYear + 1)
              => /\ points[m].gdpPercent = points[m - 1].gdpPercent
                 /\ points[m].y = points[m - 1].y

(***************************************************************************)
(* Properties of the alternating layout and of the color assignment        *)
(***************************************************************************)

\* the events of the band that overlap the visible range (no band but People
\* extends an event without end year)
VisibleIds ==
    {id \in Range(eventSet.events) :
        /\ Catalog[id].startYear <= ts.endYear
        /\ (IF Catalog[id].endYear # None THEN Catalog[id].endYear
            ELSE IF isPeopleBand THEN ts.endYear ELSE Catalog[id].startYear) >= ts.startYear}

\* C22: in the alternating layout the items are placed in ascending order of
\* start year, the i-th of them (0-based) on the band's baseline when i is even
\* and 3 line gaps below it when i is odd, with the label at the line's start;
\* when the loop has finished these are exactly the visible items
C22_Alternating ==
    (isPresidentsBand /\ pc \in {"presidents", "finish", "done"}) =>
        /\ \A i \in DOMAIN placedItems :
              /\ placedItems[i].lineY = IF (i - 1) % 2 = 0 THEN baseY ELSE baseY + 3 * lineGap
              /\ placedItems[i].textX = placedItems[i].startX
        /\ \A i, j \in DOMAIN placedItems :
              i < j => Catalog[placedItems[i].person].startYear
                          <= Catalog[placedItems[j].person].startYear
        /\ pc \in {"finish", "done"} =>
              /\ {placedItems[i].person : i \in DOMAIN placedItems} = VisibleIds
              /\ Len(placedItems) = Cardinality(VisibleIds)

\* three items of two priorities laid out on the two lines, the item of the
\* later start year and higher priority after the others
C22_Witness ==
    /\ isPresidentsBand
    /\ pc = "done"
    /\ Len(placedItems) = 3
    /\ placedItems[3].lineY = baseY
    /\ placedItems[2].lineY = baseY + 3 * lineGap
    /\ \E i \in 1..2 : Catalog[placedItems[i].person].priority
                          > Catalog[placedItems[3].person].priority

\* the items of the near set of the item at idx, in vertical order
NearSet(idx) ==
    {j \in DOMAIN placedItems :
        /\ j < idx
        /\ idx - j <= 3
        /\ Abs(placedItems[idx].lineY - placedItems[j].lineY) < 50 * Sub}

\* the least squared RGB distance of a color to the colors of the near set
NearDistance(color, idx) ==
    LET ds == {colorDistance(color, personColor[placedItems[j].person]) : j \in NearSet(idx)}
    IN  CHOOSE d \in ds : \A e \in ds : d <= e

C24_LabelInSpan ==
    ~isPresidentsBand =>
        \A i \in DOMAIN placedItems :
            LET p == placedItems[i]
            IN  IF isPeopleBand
                THEN p.startX <= p.textX /\ p.textX + p.textWidth <= p.endX
                ELSE /\ p.startX <= p.textX
                     /\ p.textX <= p.endX
                     /\ p.textX + p.textWidth <= yearToX(ts, ts.endYear)

\* an interval item of a band other than People whose label was moved to the
\* right of its line's start by the label of an item placed before it
C24_Witness ==
    /\ ~isPresidentsBand
    /\ ~isPeopleBand
    /\ \E i \in DOMAIN placedItems :
          /\ placedItems[i].textX > placedItems[i].startX
          /\ placedItems[i].textX <= placedItems[i].endX

\* C26: within a layout of the band a recorded item stays among the placed
\* items with its lineY, startX, endX and textX unchanged (the sort by lineY
\* only reorders the items), and no input item is recorded twice
C26_PlacementsKept ==
    [][/\ pc # "start" =>
             \A i \in DOMAIN placedItems :
                \E j \in DOMAIN placedItems' : placedItems'[j] = placedItems[i]
       /\ \A i, j \in DOMAIN placedItems' :
             i # j => placedItems'[i].person # placedItems'[j].person]_vars

\* three items placed by the general layout whose vertical order differs from
\* the order of placement
C26_Witness ==
    /\ pc = "done"
    /\ ~isPresidentsBand
    /\ Len(placedItems) = 3
    /\ placedItems[2].person = sortedPeople[3]
    /\ placedItems[2].lineY < placedItems[3].lineY

\* the position of an id in the order of processing
OrderOf(id) == CHOOSE n \in DOMAIN sortedPeople : sortedPeople[n] = id

\* the items placed before item p
PlacedBefore(p) ==
    {i \in DOMAIN placedItems : OrderOf(placedItems[i].person) < OrderOf(p.person)}

\* the line of p at row y keeps one year's width and a line gap from the
\* lines placed before it
LineFree(p, y) ==
    \A i \in PlacedBefore(p) :
        LET q == placedItems[i]
        IN  ~(/\ p.startX < q.endX + minTimelineGap
              /\ p.endX + minTimelineGap > q.startX
              /\ Abs(y - q.lineY) < lineGap)

\* the label of p at x in row y keeps textGap from the labels placed before it
\* in rows less than 18 px away
LabelFree(p, x, y) ==
    \A i \in PlacedBefore(p) :
        LET q == placedItems[i]
        IN  Abs(y - q.lineY) < 18 * Sub
               => ~(x < q.textX + q.textWidth + textGap /\ x + p.textWidth + textGap > q.textX)

\* the label positions the usable span of p allows
UsableSpan(p) ==
    p.startX .. (IF isPeopleBand THEN p.endX - p.textWidth
                 ELSE Min(p.endX, yearToX(ts, ts.endYear) - p.textWidth))

Feasible(p, y) == LineFree(p, y) /\ \E x \in UsableSpan(p) : LabelFree(p, x, y)

\* C27: every item placed by the general layout lies on a row baseline +
\* k * lineGap, no row above it was feasible for it given the items placed
\* before it, and its label is at the leftmost collision-free position of its
\* row within its usable span
C27_FirstFeasible ==
    (~isPresidentsBand /\ pc \in {"item", "finish", "done"}) =>
        \A n \in DOMAIN placedItems :
            LET p == placedItems[n]
            IN  \E k \in 0..SafetyLimit :
                   /\ p.lineY = baseY + k * lineGap
                   /\ \A j \in 0..(k - 1) : ~Feasible(p, baseY + j * lineGap)
                   /\ LineFree(p, p.lineY)
                   /\ p.textX \in UsableSpan(p)
                   /\ LabelFree(p, p.textX, p.lineY)
                   /\ \A x \in UsableSpan(p) : x < p.textX => ~LabelFree(p, x, p.lineY)

\* an item that passed rows with a line collision and rows without room for
\* its label, and whose label had to move right in its own row
C27_Witness ==
    /\ ~isPresidentsBand
    /\ pc = "item"
    /\ \E n \in DOMAIN placedItems :
          LET p == placedItems[n]
          IN  /\ p.lineY > baseY + lineGap
              /\ p.textX > p.startX
              /\ \E y \in {baseY + j * lineGap : j \in 0..3} :
                    y < p.lineY /\ ~LineFree(p, y)
              /\ \E y \in {baseY + j * lineGap : j \in 0..3} :
                    y < p.lineY /\ LineFree(p, y) /\ ~Feasible(p, y)

(***************************************************************************)
(* Properties of drawEventBands                                            *)
(***************************************************************************)

\* C21: the first band starts at padding.top, every further band starts at
\* the top of the band before it plus that band's height plus bandSpacing, so
\* no two bands overlap; the lines and labels of a band laid out lie within
\* the band; and the final height of the canvas is the bottom of the last band
\* plus 32
C21_BandsStacked ==
    LET bands == stack.bands
    IN  /\ \A i \in DOMAIN bands :
              /\ bands[i].height >= 0
              /\ bands[i].y = IF i = 1 THEN 100 * Sub
                              ELSE bands[i - 1].y + bands[i - 1].height + 20 * Sub
        /\ \A i, j \in DOMAIN bands : i < j => bands[i].y + bands[i].height <= bands[j].y
        /\ pc = "done" =>
              \A n \in DOMAIN placedItems :
                 /\ stack.currentY <= placedItems[n].lineY - textHeight
                 /\ placedItems[n].lineY + HalfLineHeight <= stack.currentY + actualHeight
        /\ stack.finalHeight # None =>
              /\ Len(bands) = Len(stack.sets)
              /\ stack.finalHeight = bands[Len(bands)].y + bands[Len(bands)].height + 32 * Sub

\* a canvas of three bands of different heights, the stacked chart among them
C21_Witness ==
    /\ stack.finalHeight # None
    /\ Len(stack.bands) = 3
    /\ stack.bands[1].height # stack.bands[2].height
    /\ stack.bands[2].height # stack.bands[3].height
    /\ \E i \in 1..3 : stack.bands[i].name = "World Power"

(***************************************************************************)
(* Properties of initializeTimeline                                        *)
(***************************************************************************)

\* C30: once all initializeTimeline calls have completed, two of them having
\* overlapped, the timeline id, the configuration, the event sets and the
\* time scale of AppState all belong to the timeline requested last
C30_LastRequested ==
    (/\ calls # <<>>
     /\ \A k \in DOMAIN calls : ~calls[k].loading
     /\ \E k \in DOMAIN calls : calls[k].overlapped)
        => LET cfg == getConfig(calls[Len(calls)].timelineId)
           IN  /\ AppState.currentTimelineId = cfg.id
               /\ AppState.timelineConfig = cfg
               /\ AppState.eventSets = cfg.data
               /\ ts.startYear = cfg.startYear
               /\ ts.endYear = cfg.endYear

=============================================================================
